---- MODULE Spec2Model ----
(***************************************************************************)
(* Model of the bimuz-bot backend API client (src/api_client.py) and of    *)
(* the Redis session store it reads and writes (src/storage.py).           *)
(*                                                                         *)
(* One behaviour is one call of APIClient._request by one client instance. *)
(* The process positions (pc) are the suspension points of the coroutine:  *)
(* the HTTP request of the attempt loop, the three awaits of the refresh   *)
(* sub-protocol, the re-issued request, and the backoff sleep.  The        *)
(* variable trace records what a fake transport and a fake clock would     *)
(* see: requests sent, responses and transport errors received, refresh    *)
(* invocations and their results, and sleeps.                              *)
(***************************************************************************)
EXTENDS Integers, Sequences, FiniteSets, TLC

(***************************************************************************)
(* Bounds of the model and constants of the program.                       *)
(***************************************************************************)
\* largest value of the max_retries argument that is explored (the default is 2)
MaxRetriesBound == 2
\* wait_time = (attempt + 1) * BackoffUnit
BackoffUnit == 2
\* the Telegram user id of the one user of the model
UserId == "u1"

\* Python's None, for tokens, user ids and header values
None == "<None>"

(***************************************************************************)
(* JSON values, as json.loads / response.json() produce them.  An object   *)
(* is a function from its keys to JSON values; a key the object lacks is   *)
(* not in the function's domain.                                           *)
(***************************************************************************)
JStr(s) == [t |-> "str", s |-> s]
JBool(b) == [t |-> "bool", b |-> b]
JNull == [t |-> "null"]
JList == [t |-> "list"]
JObj(f) == [t |-> "obj", f |-> f]
EmptyDict == [k \in {} |-> JNull]

\* Python truthiness of a JSON value (JList stands for a non-empty list)
Truthy(v) ==
    CASE v.t = "str" -> v.s # ""
      [] v.t = "bool" -> v.b
      [] v.t = "null" -> FALSE
      [] v.t = "list" -> TRUE
      [] v.t = "obj" -> DOMAIN v.f # {}

\* only a dict has .get; on a list or None the call raises AttributeError
HasGet(v) == v.t = "obj"
\* dict.get(key, default)
Get(o, key, default) == IF key \in DOMAIN o.f THEN o.f[key] ELSE default

(***************************************************************************)
(* The bodies a backend answer may carry.                                  *)
(***************************************************************************)
MessageValues == {JStr("Invalid email")}
ErrorsValues == {JObj(EmptyDict), JObj([k \in {"email"} |-> JStr("invalid")])}
SuccessValues == {JBool(TRUE), JBool(FALSE)}
BodyKeys == {"message", "errors", "success"}
FieldChoices == [message : MessageValues, errors : ErrorsValues, success : SuccessValues]
ObjectBodies == {JObj([k \in D |-> c[k]]) : D \in SUBSET BodyKeys, c \in FieldChoices}

\* a body that is not JSON (or whose content type is not JSON)
RawText == [t |-> "raw"]
\* no body at all
EmptyText == [t |-> "empty"]
\* response.json() gives None for an empty body with a JSON content type
JsonBodies == ObjectBodies \cup {JList, JNull}
Bodies == JsonBodies \cup {RawText}

Statuses == {200, 204, 400, 401, 500}
\* the Content-Length header: absent, "0", a positive number, not a number
ContentLengths == {None, "0", "17", "chunked"}

\* the bodies explored for a 204 answer
Bodies204 ==
    {EmptyText, RawText, JList, JNull}
    \cup {b \in ObjectBodies : DOMAIN b.f \subseteq {"success", "message"}}

Responses ==
    {[status |-> s, clen |-> "17", body |-> b] : s \in Statuses \ {204}, b \in Bodies}
    \cup {[status |-> 204, clen |-> c, body |-> b] : c \in ContentLengths, b \in Bodies204}

(***************************************************************************)
(* Transport errors: an aiohttp.ClientError is known to the code by its    *)
(* type name and by the substrings its text contains.  markers is the set  *)
(* of the substrings the code looks for that the text contains ("timeout"  *)
(* and "connection" after lower-casing).                                   *)
(***************************************************************************)
ClientErrorTypes ==
    {"ClientOSError", "ServerTimeoutError", "ClientConnectionError", "ConnectionTimeoutError"}
MessageTexts == {{}, {"timeout"}, {"connection"}, {"timeout", "connection"}, {"204"}, {"ICE", "connection"}}
ClientErrors == [etype : ClientErrorTypes, markers : MessageTexts]
\* an exception of session.request that is no aiohttp.ClientError
OtherException == [etype |-> "TypeError", markers |-> {}]

\* "TimeoutError" in type(e).__name__
TypeNameHasTimeoutError(n) == n \in {"ServerTimeoutError", "ConnectionTimeoutError"}
\* "Connection" in type(e).__name__
TypeNameHasConnection(n) == n \in {"ClientConnectionError", "ConnectionTimeoutError"}

(***************************************************************************)
(* Tokens and call arguments.                                              *)
(***************************************************************************)
AccessTokens == {"a0", "a1", "a2"}
OldAccess == "a0"

\* strings are sequences of characters here, so that the path and base URL
\* normalisation is computed as the code computes it
API_BASE_URL == <<"h">>

\* a GET with query parameters and a PATCH with a JSON body whose endpoint
\* lacks the leading '/'
CallArgs ==
    {[method |-> "GET", endpoint |-> <<"/", "e">>, data |-> None, params |-> "search=x",
      retry_on_401 |-> r, max_retries |-> m] : r \in BOOLEAN, m \in 0..MaxRetriesBound}
    \cup
    {[method |-> "PATCH", endpoint |-> <<"e">>, data |-> "{role: x}", params |-> None,
      retry_on_401 |-> r, max_retries |-> m] : r \in BOOLEAN, m \in 0..MaxRetriesBound}

(***************************************************************************)
(* Pure helpers of APIClient.                                              *)
(***************************************************************************)
\* truthiness of an optional string (None and '' are falsy)
TruthyStr(x) == x # None /\ x # ""

\* endpoint = '/' + endpoint unless it starts with '/'
NormalizeEndpoint(ep) == IF Len(ep) > 0 /\ ep[1] = "/" THEN ep ELSE <<"/">> \o ep

\* str.rstrip('/')
RECURSIVE RStripSlash(_)
RStripSlash(s) ==
    IF Len(s) > 0 /\ s[Len(s)] = "/" THEN RStripSlash(SubSeq(s, 1, Len(s) - 1)) ELSE s

BuildUrl(base, ep) == RStripSlash(base) \o NormalizeEndpoint(ep)

\* _get_headers: Authorization is present only for a truthy token
get_headers(token) ==
    IF TruthyStr(token)
    THEN [h \in {"Content-Type", "Authorization"} |->
            IF h = "Content-Type" THEN <<"application/json">> ELSE <<"Bearer", token>>]
    ELSE [h \in {"Content-Type"} |-> <<"application/json">>]

\* the arguments of one self.session.request(...) of the attempt loop
LoopRequest(a, hdrs) ==
    [method |-> a.method, url |-> BuildUrl(API_BASE_URL, a.endpoint),
     json |-> a.data, params |-> a.params, headers |-> hdrs]

\* mutant: the re-issued request leaves the query parameters out
RetryRequest_NoParams(a, hdrs) ==
    [method |-> a.method, url |-> BuildUrl(API_BASE_URL, a.endpoint),
     json |-> a.data, params |-> None, headers |-> hdrs]

\* the arguments of the self.session.request(...) issued after a refresh
RetryRequest(a, hdrs) ==
    [method |-> a.method, url |-> BuildUrl(API_BASE_URL, a.endpoint),
     json |-> a.data, params |-> a.params, headers |-> hdrs]

(***************************************************************************)
(* What the handling of an answer comes to: a returned value, a raised     *)
(* error, or the start of the refresh sub-protocol.                        *)
(***************************************************************************)
Returned(v) == [k |-> "return", v |-> v]
Raised(e) == [k |-> "raise", e |-> e]
NeedRefresh == [k |-> "refresh"]
NoResult == [k |-> "none"]

SynthesizedSuccess ==
    JObj([key \in {"success", "message"} |->
            IF key = "success" THEN JBool(TRUE) ELSE JStr("Operation completed successfully")])

\* mutant: errors falls back to the body when the backend's errors is empty
ValidationEnvelope_ErrorsOrBody(data) ==
    JObj([key \in {"success", "message", "errors"} |->
            CASE key = "success" -> JBool(FALSE)
              [] key = "message" -> Get(data, "message", JStr("Validation error"))
              [] key = "errors" -> IF Truthy(Get(data, "errors", JNull))
                                   THEN Get(data, "errors", data) ELSE data])

\* the dict returned for a 400
ValidationEnvelope(data) ==
    JObj([key \in {"success", "message", "errors"} |->
            CASE key = "success" -> JBool(FALSE)
              [] key = "message" -> Get(data, "message", JStr("Validation error"))
              [] key = "errors" -> Get(data, "errors", data)])

APIError(status, data) ==
    [kind |-> "APIError", status |-> status,
     message |-> Get(data, "message", JStr("Unknown error")),
     errors |-> IF Truthy(Get(data, "errors", JObj(EmptyDict)))
                THEN Get(data, "errors", JObj(EmptyDict)) ELSE JNull]

\* content_length and int(content_length) > 0, with the header's default '0';
\* "error" stands for the ValueError of int() on a value that is no number
ContentLengthPositive(c) ==
    CASE c = None -> "no"
      [] c = "0" -> "no"
      [] c = "17" -> "yes"
      [] OTHER -> "error"

\* mutant: the 204 branch returns any JSON object body, whatever its success
Handle204_AnyObject(resp) ==
    IF ContentLengthPositive(resp.clen) = "yes"
       /\ resp.body # EmptyText
       /\ resp.body # RawText
       /\ HasGet(resp.body)
    THEN Returned(resp.body)
    ELSE Returned(SynthesizedSuccess)

\* the 204 branch of the attempt loop
Handle204(resp) ==
    IF ContentLengthPositive(resp.clen) = "yes"
       /\ resp.body # EmptyText
       /\ resp.body # RawText
       /\ HasGet(resp.body)
       /\ Truthy(Get(resp.body, "success", JNull))
    THEN Returned(resp.body)
    ELSE Returned(SynthesizedSuccess)

\* mutant: a server error is not raised, its body is returned
HandleStatus_5xxReturnsBody(status, data) ==
    IF status >= 400 /\ status < 500
    THEN IF ~HasGet(data) THEN Raised([kind |-> "AttributeError"])
         ELSE IF status = 400 THEN Returned(ValidationEnvelope(data))
         ELSE Raised(APIError(status, data))
    ELSE Returned(data)

\* mutant: a body that is no JSON object is replaced by the success envelope
HandleStatus_WrapsNonObject(status, data) ==
    IF status >= 400
    THEN IF ~HasGet(data) THEN Raised([kind |-> "AttributeError"])
         ELSE IF status = 400 THEN Returned(ValidationEnvelope(data))
         ELSE Raised(APIError(status, data))
    ELSE IF HasGet(data) THEN Returned(data) ELSE Returned(SynthesizedSuccess)

\* the status handling of the attempt loop, after the body was parsed
HandleStatus(status, data) ==
    IF status >= 400
    THEN IF ~HasGet(data) THEN Raised([kind |-> "AttributeError"])
         ELSE IF status = 400 THEN Returned(ValidationEnvelope(data))
         ELSE Raised(APIError(status, data))
    ELSE Returned(data)

\* status == 401 and retry_on_401 and self.user_id
WantsRefresh(status, retry_on_401, uid) == status = 401 /\ retry_on_401 /\ TruthyStr(uid)

\* mutant: a body that is not JSON is read as None
HandleResponse_RawAsNone(resp, retry_on_401, uid) ==
    IF resp.status = 204 THEN Handle204(resp)
    ELSE IF WantsRefresh(resp.status, retry_on_401, uid) THEN NeedRefresh
    ELSE HandleStatus(resp.status, IF resp.body \in {EmptyText, RawText} THEN JNull ELSE resp.body)

\* the handling of the answer to a request of the attempt loop
HandleResponse(resp, retry_on_401, uid) ==
    IF resp.status = 204 THEN Handle204(resp)
    ELSE IF resp.body = RawText THEN Raised([kind |-> "InvalidJSON"])
    ELSE IF WantsRefresh(resp.status, retry_on_401, uid) THEN NeedRefresh
    ELSE HandleStatus(resp.status, IF resp.body = EmptyText THEN JNull ELSE resp.body)

\* mutant: the 204 branch of the re-issued request does not read the body
Retry204_NoBodyRead(resp) == Returned(SynthesizedSuccess)

\* the 204 branch of the re-issued request
Retry204(resp) ==
    IF ContentLengthPositive(resp.clen) = "yes"
       /\ resp.body # EmptyText
       /\ resp.body # RawText
       /\ HasGet(resp.body)
       /\ Truthy(Get(resp.body, "success", JNull))
    THEN Returned(resp.body)
    ELSE Returned(SynthesizedSuccess)

\* mutant: the re-issued request's 401 is folded into an envelope like a 400
RetryStatus_401AsEnvelope(status, data) ==
    IF status >= 400
    THEN IF ~HasGet(data) THEN Raised([kind |-> "AttributeError"])
         ELSE IF status \in {400, 401} THEN Returned(ValidationEnvelope(data))
         ELSE Raised(APIError(status, data))
    ELSE Returned(data)

\* the status handling of the re-issued request
RetryStatus(status, data) ==
    IF status >= 400
    THEN IF ~HasGet(data) THEN Raised([kind |-> "AttributeError"])
         ELSE IF status = 400 THEN Returned(ValidationEnvelope(data))
         ELSE Raised(APIError(status, data))
    ELSE Returned(data)

\* the handling of the answer to the re-issued request
HandleRetryResponse(resp) ==
    IF resp.status = 204 THEN Retry204(resp)
    ELSE IF resp.body = RawText THEN Raised([kind |-> "InvalidJSON"])
    ELSE RetryStatus(resp.status, IF resp.body = EmptyText THEN JNull ELSE resp.body)

(***************************************************************************)
(* The except aiohttp.ClientError clause.                                  *)
(***************************************************************************)
IsMisparsed204(e) == e.markers \cap {"204", "Expected HTTP", "RTSP", "ICE"} # {}

\* mutant: the loop runs for twice the attempts
ShouldBackoff_TwiceTheAttempts(att, max_retries) == att < 2 * max_retries + 2

\* mutant: the retry test is off by one
ShouldBackoff_OffByOne(att, max_retries) == att <= max_retries

\* attempt < max_retries
ShouldBackoff(att, max_retries) == att < max_retries

\* mutant: the delay is computed from attempt, not attempt + 1
wait_time_from_attempt(att) == att * BackoffUnit

wait_time(att) == (att + 1) * BackoffUnit

\* mutant: the connection test comes before the timeout test
ClassifyNetworkError_ConnectionFirst(e) ==
    IF TypeNameHasConnection(e.etype) \/ "connection" \in e.markers
    THEN [kind |-> "ConnectionError", context |-> e]
    ELSE IF "timeout" \in e.markers \/ TypeNameHasTimeoutError(e.etype)
    THEN [kind |-> "ConnectionTimeout", context |-> e]
    ELSE [kind |-> "NetworkError", context |-> e]

\* the exception raised when the retries are used up; raised inside the except
\* clause, it carries the ClientError it handles as its __context__
ClassifyNetworkError(e) ==
    IF "timeout" \in e.markers \/ TypeNameHasTimeoutError(e.etype)
    THEN [kind |-> "ConnectionTimeout", context |-> e]
    ELSE IF TypeNameHasConnection(e.etype) \/ "connection" \in e.markers
    THEN [kind |-> "ConnectionError", context |-> e]
    ELSE [kind |-> "NetworkError", context |-> e]

(***************************************************************************)
(* The session store: the Redis hash of the user's key bot:session:<id>,   *)
(* a function from the fields it holds to their values (no key: no field). *)
(***************************************************************************)
NoSession == [f \in {} |-> None]
LoginSession ==
    [f \in {"access_token", "refresh_token", "employee", "last_activity"} |->
        CASE f = "access_token" -> OldAccess
          [] f = "refresh_token" -> "r0"
          [] f = "employee" -> "{role: direktor}"
          [] f = "last_activity" -> "at login"]

\* redis hget: None for a missing key or field
hget(h, field) == IF field \in DOMAIN h THEN h[field] ELSE None
\* redis hset of one field
hset(h, field, value) ==
    [f \in DOMAIN h \cup {field} |-> IF f = field THEN value ELSE h[f]]

\* UserStorage.get_refresh_token: None when Redis fails
get_refresh_token(h, redis_ok) == IF redis_ok THEN hget(h, "refresh_token") ELSE None

\* mutant: the new token is written to another field of the hash
update_access_token_WrongField(h, token, redis) ==
    CASE redis = "ok" -> hset(hset(h, "token", token), "last_activity", "at refresh")
      [] redis = "first" -> hset(h, "token", token)
      [] OTHER -> h

\* mutant: the refresh rotates the refresh token as well
update_access_token_RotatesRefresh(h, token, redis) ==
    CASE redis = "ok" -> hset(hset(hset(h, "access_token", token), "refresh_token", token),
                              "last_activity", "at refresh")
      [] redis = "first" -> hset(h, "access_token", token)
      [] OTHER -> h

\* UserStorage.update_access_token: two hsets, an exception of either is swallowed;
\* redis names how far the writes got: "ok", "first" (only the first), "none"
update_access_token(h, token, redis) ==
    CASE redis = "ok" -> hset(hset(h, "access_token", token), "last_activity", "at refresh")
      [] redis = "first" -> hset(h, "access_token", token)
      [] OTHER -> h

(***************************************************************************)
(* The answers of the token-refresh endpoint.                              *)
(***************************************************************************)
AccessBody(tok) == JObj([k \in {"access"} |-> JStr(tok)])
RefreshAnswers ==
    {[status |-> 200, body |-> AccessBody(tok)] : tok \in (AccessTokens \ {OldAccess}) \cup {""}}
    \cup {[status |-> st, body |-> b] :
            st \in {200, 401}, b \in {AccessBody("a1"), JObj(EmptyDict), JList, RawText}}

\* mutant: any access field of a 200 answer is taken for the new token
NewTokenOf_AnyAccess(ans) ==
    IF ans.status = 200 /\ ans.body # RawText /\ HasGet(ans.body)
       /\ "access" \in DOMAIN ans.body.f
    THEN Get(ans.body, "access", JNull).s
    ELSE None

\* what _refresh_access_token makes of the answer: the new token or None
NewTokenOf(ans) ==
    IF ans.status = 200 /\ ans.body # RawText /\ HasGet(ans.body)
       /\ Truthy(Get(ans.body, "access", JNull))
    THEN Get(ans.body, "access", JNull).s
    ELSE None

(***************************************************************************)
(* State.                                                                  *)
(***************************************************************************)
VARIABLES
    access_token,    \* self.access_token
    user_id,         \* self.user_id
    store,           \* the session hash of UserId in Redis
    args,            \* the arguments of the _request call
    pc,              \* where the coroutine is suspended, or how it ended
    attempt,         \* the loop variable of the attempt loop
    headers,         \* the local headers
    refresh_token,   \* the local refresh_token of _refresh_access_token
    new_token,       \* the local new_access_token of _refresh_access_token
    result,          \* what the call returned or raised
    answer,          \* history: the HTTP answer whose handling ended the call
    trace,           \* history: requests, answers, refreshes and sleeps, in order
    session,         \* self.session: 0 for None, else its number in transports
    scope,           \* the caller's async with block: "new", "entered", "exited"
    transports       \* history: every aiohttp.ClientSession created, open or closed

\* the client instance, its one call, and the history of the call
cvars == <<access_token, user_id, store, args, pc, attempt, headers,
           refresh_token, new_token, result, answer, trace,
           session, scope, transports>>

VARIABLES
    redis_db,        \* the Redis keys of user_storage: hash and time-to-live
    procs,           \* the handlers and refreshes of the bot that are under way
    fsm,             \* the FSMContext of each user: state and data
    hist             \* history: what the store operations did, for the properties

\* the bot: the shared store and the concurrent handlers of its users
svars == <<redis_db, procs, fsm, hist>>

VARIABLES
    caller_role,     \* the role of the caller's employee record in the session store
    backend_role,    \* the role the backend holds for the target employee
    conv,            \* the caller's FSMContext in the employee conversations
    keyboard,        \* the inline keyboard of the last message with buttons
    confirm_shown,   \* the chat holds a message with the confirm-delete button
    last_request,    \* history: the request the last step sent to the backend, if any
    pressed          \* history: the role button pressed in the create conversation

\* the employees handlers of one caller and one target employee
evars == <<caller_role, backend_role, conv, keyboard, confirm_shown,
           last_request, pressed>>

vars == <<cvars, svars, evars>>

NoAnswer == [none |-> TRUE]

\* a client without a session identifier; the login call (no token, no session
\* yet); a logged-in user; a user whose session is gone from the store
Sessions ==
    {<<None, None, NoSession>>, <<UserId, None, NoSession>>,
     <<UserId, OldAccess, LoginSession>>, <<UserId, OldAccess, NoSession>>}

\* aiohttp.ClientSession(timeout=TIMEOUT): one more transport, open
NewTransport(ts, owner) == Append(ts, [owner |-> owner, open |-> TRUE])
\* session.close()
CloseTransport(ts, n) == [ts EXCEPT ![n].open = FALSE]
\* the end of the block of async with aiohttp.ClientSession(...) as session
CloseOwned(ts, owner) ==
    [n \in DOMAIN ts |-> IF ts[n].owner = owner THEN [ts[n] EXCEPT !.open = FALSE] ELSE ts[n]]

(***************************************************************************)
(* The bot around the client: the Redis store of user_storage, shared by   *)
(* every handler, and the conversation state of each user.  A Redis key    *)
(* is its hash (empty: the key does not exist) and its time-to-live.       *)
(***************************************************************************)
\* 7 * 24 * 60 * 60, the lifetime set_user_data gives a session
SessionTTL == 604800
\* the steps in which the model lets a lifetime pass
TicksPerLifetime == 2

Users == {"u1", "u2"}
\* mutant: the key does not hold the user id
get_key_Shared(u) == <<"bot:session:">>
\* UserStorage._get_key: f"bot:session:{user_id}"
get_key(u) == <<"bot:session:", u>>
Keys == {get_key(u) : u \in Users}

NoKey == [hash |-> NoSession, expires |-> FALSE, ttl |-> 0]
KeyExists(k) == DOMAIN k.hash # {}
\* mutant: HSETNX, a field that exists keeps its value
redis_hset_IfAbsent(k, field, value) ==
    IF field \in DOMAIN k.hash THEN k ELSE [k EXCEPT !.hash = hset(k.hash, field, value)]
\* HSET key field value: creates the key when it is missing, keeps its TTL
redis_hset(k, field, value) == [k EXCEPT !.hash = hset(k.hash, field, value)]
\* HSET key with a mapping
redis_hset_mapping(k, m) ==
    [k EXCEPT !.hash = [f \in DOMAIN k.hash \cup DOMAIN m |->
                            IF f \in DOMAIN m THEN m[f] ELSE k.hash[f]]]
\* EXPIRE key seconds: nothing on a missing key
redis_expire(k, secs) ==
    IF KeyExists(k) THEN [k EXCEPT !.expires = TRUE, !.ttl = secs] ELSE k
\* DEL key
redis_delete(k) == NoKey
\* HGET key field
redis_hget(k, field) == hget(k.hash, field)
\* the key after secs seconds: Redis deletes it when its lifetime is over
redis_after(k, secs) ==
    IF ~k.expires THEN k
    ELSE IF k.ttl - secs <= 0 THEN NoKey
    ELSE [k EXCEPT !.ttl = k.ttl - secs]

\* the employee objects of a login answer, and their JSON texts
EmployeeValues == {JObj([k \in {"role"} |-> JStr("direktor")]),
                   JObj([k \in {"role"} |-> JStr("mentor")])}
\* json.dumps(employee_data, default=str)
json_dumps(v) ==
    CASE v = JObj([k \in {"role"} |-> JStr("direktor")]) -> "{role: direktor}"
      [] v = JObj([k \in {"role"} |-> JStr("mentor")]) -> "{role: mentor}"
      [] v = JList -> "[x]"
      [] OTHER -> "null"
\* json.loads(employee_json)
json_loads(text) ==
    CASE text = "{role: direktor}" -> JObj([k \in {"role"} |-> JStr("direktor")])
      [] text = "{role: mentor}" -> JObj([k \in {"role"} |-> JStr("mentor")])
      [] text = "[x]" -> JList
      [] OTHER -> JNull

\* the session_data of set_user_data
session_data(access, refresh, employee) ==
    [f \in {"access_token", "refresh_token", "employee", "last_activity"} |->
        CASE f = "access_token" -> access
          [] f = "refresh_token" -> refresh
          [] f = "employee" -> json_dumps(employee)
          [] f = "last_activity" -> "at login"]

\* the getters of UserStorage on a key, Redis answering or not
get_access_token(k, redis_ok) == IF redis_ok THEN redis_hget(k, "access_token") ELSE None
get_employee(k, redis_ok) ==
    IF redis_ok /\ TruthyStr(redis_hget(k, "employee"))
    THEN json_loads(redis_hget(k, "employee")) ELSE JNull
\* access_token is not None
is_authenticated(k, redis_ok) == get_access_token(k, redis_ok) # None

\* the two clients of user u1 whose requests got a 401, the token the
\* refresh endpoint gives each, the logout of u1, process_password per user
ClientUser == "u1"
Clients == {"c1", "c2"}
NewTokenFor(c) == IF c = "c1" THEN "a1" ELSE "a2"
LogoutProc == "lo"
PasswordProc(u) == IF u = "u1" THEN "pw1" ELSE "pw2"

NoSet == [none |-> TRUE]
NoLogin == [none |-> TRUE]

(***************************************************************************)
(* Roles and permissions (permissions.py).  A role is a string; it is kept *)
(* as the sequence of its parts between underscores and the underscores,   *)
(* so that str.split('_') is computed as Python computes it.               *)
(***************************************************************************)
\* None or '' (both are falsy)
NoRole == <<>>
Dasturchi == <<"dasturchi">>
Direktor == <<"direktor">>
Administrator == <<"administrator">>
Buxgalter == <<"buxgalter">>
SotuvAgenti == <<"sotuv", "_", "agenti">>
Mentor == <<"mentor">>
Assistent == <<"assistent">>

ROLE_LEVEL ==
    [r \in {SotuvAgenti, Mentor, Assistent, Buxgalter, Administrator, Direktor, Dasturchi} |->
        CASE r \in {SotuvAgenti, Mentor, Assistent} -> 0
          [] r = Buxgalter -> 1
          [] r = Administrator -> 2
          [] r = Direktor -> 3
          [] r = Dasturchi -> 4]

\* the roles the model draws from: the known ones, no role, and two strings
\* that are no role of the hierarchy
RoleValues == DOMAIN ROLE_LEVEL \cup {NoRole, <<"sotuv">>, <<"stajyor">>}
\* the roles of the target employee: one of each level, and none
TargetRoles == {NoRole, Mentor, Buxgalter, Administrator, Direktor, Dasturchi}

get_role_level(role) ==
    IF role = NoRole THEN 0
    ELSE IF role \in DOMAIN ROLE_LEVEL THEN ROLE_LEVEL[role] ELSE 0

can_create_employee(user_role) == get_role_level(user_role) >= ROLE_LEVEL[Administrator]

\* mutant: an administrator may act on roles up to administrator
can_update_employee_AdminOnPeers(user_role, target_role) ==
    LET user_level == get_role_level(user_role)
        target_level == get_role_level(target_role)
    IN  IF user_level = ROLE_LEVEL[Dasturchi] THEN TRUE
        ELSE IF user_level = ROLE_LEVEL[Direktor] THEN target_level # ROLE_LEVEL[Dasturchi]
        ELSE IF user_level = ROLE_LEVEL[Administrator]
             THEN target_level <= ROLE_LEVEL[Administrator]
        ELSE FALSE

can_update_employee(user_role, target_role) ==
    LET user_level == get_role_level(user_role)
        target_level == get_role_level(target_role)
    IN  IF user_level = ROLE_LEVEL[Dasturchi] THEN TRUE
        ELSE IF user_level = ROLE_LEVEL[Direktor] THEN target_level # ROLE_LEVEL[Dasturchi]
        ELSE IF user_level = ROLE_LEVEL[Administrator]
             THEN target_level < ROLE_LEVEL[Administrator]
        ELSE FALSE

can_delete_employee(user_role, target_role) == can_update_employee(user_role, target_role)

can_assign_role(user_role, target_role) ==
    LET user_level == get_role_level(user_role)
        target_level == get_role_level(target_role)
    IN  IF user_level = ROLE_LEVEL[Dasturchi] THEN TRUE
        ELSE IF user_level = ROLE_LEVEL[Direktor] THEN target_level # ROLE_LEVEL[Dasturchi]
        ELSE IF user_level = ROLE_LEVEL[Administrator]
             THEN target_level < ROLE_LEVEL[Administrator]
        ELSE FALSE

all_roles == <<Dasturchi, Direktor, Administrator, Buxgalter, SotuvAgenti, Mentor, Assistent>>

get_assignable_roles(user_role) ==
    SelectSeq(all_roles, LAMBDA r : can_assign_role(user_role, r))

(***************************************************************************)
(* Strings of the employees handlers.                                      *)
(***************************************************************************)
\* str.split('_'): the parts between the underscores
RECURSIVE split(_)
split(s) ==
    IF s = <<>> THEN << <<>> >>
    ELSE IF Head(s) = "_" THEN << <<>> >> \o split(Tail(s))
    ELSE LET rest == split(Tail(s))
         IN  << <<Head(s)>> \o rest[1] >> \o Tail(rest)

\* str.startswith
startswith(s, prefix) ==
    Len(s) >= Len(prefix) /\ SubSeq(s, 1, Len(prefix)) = prefix

\* the role_names of the keyboards (the words after the emoji), and
\* role_names.get(r, r)
role_names ==
    [r \in DOMAIN ROLE_LEVEL |->
        CASE r = Dasturchi -> <<"Dasturchi">>
          [] r = Direktor -> <<"Direktor">>
          [] r = Administrator -> <<"Administrator">>
          [] r = Mentor -> <<"Mentor">>
          [] r = SotuvAgenti -> <<"Sotuv Agenti">>
          [] r = Assistent -> <<"Assistent">>
          [] r = Buxgalter -> <<"Buxgalter">>]
role_text(r) == IF r \in DOMAIN role_names THEN role_names[r] ELSE r

\* InlineKeyboardButton(text=role_names.get(r, r), callback_data=f"<prefix>{r}")
RoleButton(prefix, r) == [text |-> role_text(r), callback_data |-> prefix \o r]
CancelButton(data) == [text |-> <<"Bekor qilish">>, callback_data |-> data]
\* the keyboards of process_employee_password_confirm and process_edit_employee_field
RoleKeyboard(prefix, cancel, user_role) ==
    [i \in 1..Len(get_assignable_roles(user_role)) |->
        RoleButton(prefix, get_assignable_roles(user_role)[i])]
    \o <<CancelButton(cancel)>>
CreatePrefix == <<"role", "_">>
EditPrefix == <<"edit", "_", "role", "_">>
CancelCreate == <<"cancel", "_", "create", "_", "employee">>
CancelEdit == <<"cancel", "_", "edit", "_", "employee">>

\* the FSMContext: no state, no data
NoField == "<None>"
NoConversation ==
    [state |-> None, role |-> NoRole, field_name |-> NoField, field_value |-> NoRole,
     employee_id |-> FALSE]
NoRequest == [method |-> "none"]
NoButton == [text |-> <<>>, callback_data |-> <<>>]

\* the caller's role is the one of the login; nothing was asked or shown yet
EmployeesIdle(callers, targets) ==
    /\ caller_role \in callers
    /\ backend_role \in targets
    /\ conv = NoConversation
    /\ keyboard = <<>>
    /\ confirm_shown = FALSE
    /\ last_request = NoRequest
    /\ pressed = NoButton

\* u1 is logged in, u2 is not; nothing is under way
StoreState(conversations, refreshing) ==
    /\ redis_db = [k \in Keys |->
                    IF k = get_key(ClientUser)
                    THEN [hash |-> LoginSession, expires |-> TRUE, ttl |-> SessionTTL]
                    ELSE NoKey]
    /\ procs = [p \in Clients \cup {LogoutProc} \cup {PasswordProc(u) : u \in Users} |->
                 IF p \in Clients
                 THEN [pc |-> IF p \in refreshing THEN "idle" ELSE "done", refresh_token |-> None, new_token |-> None,
                       access_token |-> OldAccess]
                 ELSE IF p = LogoutProc THEN [pc |-> "idle"]
                 ELSE [pc |-> "idle", login |-> NoLogin, before |-> NoKey]]
    /\ fsm = conversations
    /\ hist = [logged_out |-> [u \in Users |-> FALSE],
               last_write |-> None,
               last_done |-> None,
               last_set |-> [u \in Users |-> NoSet]]

\* the store and the handlers, and the employees handlers of a direktor
BotState(conversations, refreshing) ==
    /\ StoreState(conversations, refreshing)
    /\ EmployeesIdle({Direktor}, {Mentor})

\* no conversation has started
BotInit == BotState([u \in Users |-> [state |-> None, email |-> FALSE]], Clients)

\* APIClient(access_token=..., user_id=...) and the arguments of its one call
Constructed ==
    /\ BotInit
    /\ args \in CallArgs
    /\ \E s \in Sessions : user_id = s[1] /\ access_token = s[2] /\ store = s[3]
    /\ pc = "request"
    /\ attempt = 0
    /\ headers = get_headers(access_token)
    /\ refresh_token = None
    /\ new_token = None
    /\ result = NoResult
    /\ answer = NoAnswer
    /\ trace = <<>>

\* the call starts inside the caller's async with block: __aenter__ has run
Init ==
    /\ Constructed
    /\ scope = "entered"
    /\ session = 1
    /\ transports = NewTransport(<<>>, "aenter")

Log(evs) == trace' = trace \o evs
EvRequest(req, retry) == [ev |-> "request", req |-> req, retry |-> retry]
EvResponse(resp, retry) == [ev |-> "response", status |-> resp.status, retry |-> retry]
EvClientError(e, retry) == [ev |-> "client_error", misparsed |-> IsMisparsed204(e), retry |-> retry]
EvException(retry) == [ev |-> "exception", retry |-> retry]
EvSleep(secs) == [ev |-> "sleep", secs |-> secs]
\* the refresh is invoked; the event keeps the token the client and the store hold then
EvRefresh == [ev |-> "refresh", access_token |-> access_token,
              store_access |-> hget(store, "access_token")]
\* the POST to the refresh endpoint and what came back (NoAnswer: it raised)
EvRefreshPost(tok, ans) == [ev |-> "refresh_post", refresh |-> tok, answer |-> ans]
\* update_access_token has run: whether Redis took the first hset, and the
\* access token the store holds afterwards
EvStoreWrite(tok, redis, h) ==
    [ev |-> "store_write", token |-> tok, accepted |-> redis # "none",
     stored |-> hget(h, "access_token")]
EvRefreshResult(tok) == [ev |-> "refresh_result", token |-> tok]

\* if not self.session: self.session = aiohttp.ClientSession(timeout=TIMEOUT)
LazySession ==
    IF session = 0
    THEN /\ session' = Len(transports) + 1
         /\ transports' = NewTransport(transports, "request")
    ELSE UNCHANGED <<session, transports>>

\* the call ends with disposition d (a return or a raise)
Finish(d) ==
    /\ pc' = IF d.k = "return" THEN "returned" ELSE "raised"
    /\ result' = d

\* mutant: the backoff test comes before the test of the misparsed-204 signature
OnClientError_BackoffFirst(e, evs) ==
    IF ShouldBackoff(attempt, args.max_retries)
    THEN /\ pc' = "sleep"
         /\ Log(evs \o <<EvSleep(wait_time(attempt))>>)
         /\ UNCHANGED <<result, attempt>>
    ELSE /\ Finish(IF IsMisparsed204(e) THEN Returned(SynthesizedSuccess)
                   ELSE Raised(ClassifyNetworkError(e)))
         /\ Log(evs)
         /\ UNCHANGED attempt

\* the except aiohttp.ClientError clause, for an error e of the request just sent
\* (the local last_error is assigned there and never read: it is left out)
OnClientError(e, evs) ==
    IF IsMisparsed204(e)
    THEN /\ Finish(Returned(SynthesizedSuccess))
         /\ Log(evs)
         /\ UNCHANGED attempt
    ELSE /\ IF ShouldBackoff(attempt, args.max_retries)
            THEN /\ pc' = "sleep"
                 /\ Log(evs \o <<EvSleep(wait_time(attempt))>>)
                 /\ UNCHANGED <<result, attempt>>
            ELSE /\ Finish(Raised(ClassifyNetworkError(e)))
                 /\ Log(evs)
                 /\ UNCHANGED attempt

(***************************************************************************)
(* The attempt loop: one self.session.request and the handling of what     *)
(* comes back, up to the next suspension point.                            *)
(***************************************************************************)
RequestAnswered ==
    /\ pc = "request"
    /\ scope = "entered"
    /\ LazySession
    /\ \E resp \in Responses :
        LET d == HandleResponse(resp, args.retry_on_401, user_id)
            evs == <<EvRequest(LoopRequest(args, headers), FALSE), EvResponse(resp, FALSE)>>
        IN  IF d.k = "refresh"
            THEN /\ pc' = "refresh_get"
                 /\ Log(evs \o <<EvRefresh>>)
                 /\ UNCHANGED <<result, answer>>
            ELSE /\ Finish(d)
                 /\ answer' = resp
                 /\ Log(evs)
    /\ UNCHANGED <<access_token, user_id, store, args, svars, evars, scope, attempt, headers,
                   refresh_token, new_token>>

RequestClientError ==
    /\ pc = "request"
    /\ scope = "entered"
    /\ LazySession
    /\ \E e \in ClientErrors :
        OnClientError(e, <<EvRequest(LoopRequest(args, headers), FALSE), EvClientError(e, FALSE)>>)
    /\ UNCHANGED <<access_token, user_id, store, args, svars, evars, scope, headers, refresh_token, new_token, answer>>

\* except Exception: raise
RequestOtherException ==
    /\ pc = "request"
    /\ scope = "entered"
    /\ LazySession
    /\ Finish(Raised([kind |-> OtherException.etype]))
    /\ Log(<<EvRequest(LoopRequest(args, headers), FALSE), EvException(FALSE)>>)
    /\ UNCHANGED <<access_token, user_id, store, args, svars, evars, scope, attempt, headers,
                   refresh_token, new_token, answer>>

\* asyncio.sleep(wait_time) is over; continue
Wake ==
    /\ pc = "sleep"
    /\ attempt' = attempt + 1
    /\ pc' = "request"
    /\ UNCHANGED <<access_token, user_id, store, args, svars, evars, session, scope, transports, headers,
                   refresh_token, new_token, result, answer, trace>>

(***************************************************************************)
(* _refresh_access_token, one action per await, and the lines of _request  *)
(* that use its result.                                                    *)
(***************************************************************************)
AuthenticationFailed == [kind |-> "AuthenticationFailed"]

\* mutant: a failed refresh drops the client's token
RefreshGaveNothing_DropsToken ==
    /\ Finish(Raised(AuthenticationFailed))
    /\ transports' = CloseOwned(transports, "refresh")
    /\ access_token' = None
    /\ UNCHANGED <<headers, store, new_token>>

\* mutant: without the else branch a failed refresh falls through to the
\* generic handling of the 401
RefreshGaveNothing_FallsThrough ==
    /\ Finish(Raised([kind |-> "APIError", status |-> 401]))
    /\ transports' = CloseOwned(transports, "refresh")
    /\ UNCHANGED <<access_token, headers, store, new_token>>

\* new_token is None: raise Exception("Authentication failed. Please login again.")
RefreshGaveNothing ==
    /\ Finish(Raised(AuthenticationFailed))
    /\ transports' = CloseOwned(transports, "refresh")
    /\ UNCHANGED <<access_token, headers, store, new_token>>

\* await user_storage.get_refresh_token(self.user_id)
RefreshGetToken ==
    /\ pc = "refresh_get"
    /\ \E redis_ok \in BOOLEAN :
        LET tok == IF TruthyStr(user_id) THEN get_refresh_token(store, redis_ok) ELSE None
        IN  IF TruthyStr(tok)
            THEN /\ refresh_token' = tok
                 /\ pc' = "refresh_post"
                 /\ transports' = NewTransport(transports, "refresh")
                 /\ UNCHANGED <<access_token, headers, store, new_token, result, trace>>
            ELSE /\ RefreshGaveNothing
                 /\ Log(<<EvRefreshResult(None)>>)
                 /\ UNCHANGED refresh_token
    /\ UNCHANGED <<user_id, args, svars, evars, session, scope, attempt, answer>>

\* session.post(url, json={'refresh': refresh_token}) is answered
RefreshPostAnswered ==
    /\ pc = "refresh_post"
    /\ \E ans \in RefreshAnswers :
        LET tok == NewTokenOf(ans)
        IN  IF tok # None
            THEN /\ new_token' = tok
                 /\ pc' = "refresh_update"
                 /\ Log(<<EvRefreshPost(refresh_token, ans)>>)
                 /\ UNCHANGED <<access_token, headers, store, result, transports>>
            ELSE /\ RefreshGaveNothing
                 /\ Log(<<EvRefreshPost(refresh_token, ans), EvRefreshResult(None)>>)
    /\ UNCHANGED <<user_id, args, svars, evars, session, scope, attempt, refresh_token, answer>>

\* session.post raises; except Exception logs it and the refresh gives None
RefreshPostFails ==
    /\ pc = "refresh_post"
    /\ RefreshGaveNothing
    /\ Log(<<EvRefreshPost(refresh_token, NoAnswer), EvRefreshResult(None)>>)
    /\ UNCHANGED <<user_id, args, svars, evars, session, scope, attempt, refresh_token, answer>>

\* await user_storage.update_access_token(...); return new_access_token; then
\* self.access_token = new_token; headers = self._get_headers()
\* mutant: the headers are not built again after the refresh
RefreshUpdateStore_KeepsHeaders ==
    /\ pc = "refresh_update"
    /\ \E redis \in {"ok", "first", "none"} :
        /\ store' = update_access_token(store, new_token, redis)
        /\ Log(<<EvStoreWrite(new_token, redis, store'), EvRefreshResult(new_token)>>)
    /\ transports' = CloseOwned(transports, "refresh")
    /\ access_token' = new_token
    /\ pc' = "retry"
    /\ UNCHANGED <<user_id, args, svars, evars, session, scope, attempt, headers, refresh_token,
                   new_token, result, answer>>

RefreshUpdateStore ==
    /\ pc = "refresh_update"
    /\ \E redis \in {"ok", "first", "none"} :
        /\ store' = update_access_token(store, new_token, redis)
        /\ Log(<<EvStoreWrite(new_token, redis, store'), EvRefreshResult(new_token)>>)
    /\ transports' = CloseOwned(transports, "refresh")
    /\ access_token' = new_token
    /\ headers' = get_headers(new_token)
    /\ pc' = "retry"
    /\ UNCHANGED <<user_id, args, svars, evars, session, scope, attempt, refresh_token, new_token, result, answer>>

(***************************************************************************)
(* The request re-issued with the new token.  It is sent inside the try of *)
(* the attempt loop, so the loop's except clauses handle its failures.     *)
(***************************************************************************)
RetryAnswered ==
    /\ pc = "retry"
    /\ \E resp \in Responses :
        /\ Finish(HandleRetryResponse(resp))
        /\ answer' = resp
        /\ Log(<<EvRequest(RetryRequest(args, headers), TRUE), EvResponse(resp, TRUE)>>)
    /\ UNCHANGED <<access_token, user_id, store, args, svars, evars, session, scope, transports, attempt, headers,
                   refresh_token, new_token>>

RetryClientError ==
    /\ pc = "retry"
    /\ \E e \in ClientErrors :
        OnClientError(e, <<EvRequest(RetryRequest(args, headers), TRUE), EvClientError(e, TRUE)>>)
    /\ UNCHANGED <<access_token, user_id, store, args, svars, evars, session, scope, transports, headers, refresh_token, new_token, answer>>

RetryOtherException ==
    /\ pc = "retry"
    /\ Finish(Raised([kind |-> OtherException.etype]))
    /\ Log(<<EvRequest(RetryRequest(args, headers), TRUE), EvException(TRUE)>>)
    /\ UNCHANGED <<access_token, user_id, store, args, svars, evars, session, scope, transports, attempt, headers,
                   refresh_token, new_token, answer>>

Next ==
    \/ RequestAnswered
    \/ RequestClientError
    \/ RequestOtherException
    \/ Wake
    \/ RefreshGetToken
    \/ RefreshPostAnswered
    \/ RefreshPostFails
    \/ RefreshUpdateStore
    \/ RetryAnswered
    \/ RetryClientError
    \/ RetryOtherException

Spec == Init /\ [][Next]_vars

Terminated == pc \in {"returned", "raised"}

(***************************************************************************)
(* The unit of work of a handler: async with APIClient(...) as client,     *)
(* one call of the client inside the block, and the end of the block.      *)
(***************************************************************************)
\* the client is constructed and the block is not entered yet
ScopeInit ==
    /\ Constructed
    /\ scope = "new"
    /\ session = 0
    /\ transports = <<>>

\* __aenter__: self.session = aiohttp.ClientSession(timeout=TIMEOUT)
AEnter ==
    /\ scope = "new"
    /\ scope' = "entered"
    /\ session' = Len(transports) + 1
    /\ transports' = NewTransport(transports, "aenter")
    /\ UNCHANGED <<access_token, user_id, store, args, svars, evars, pc, attempt, headers,
                   refresh_token, new_token, result, answer, trace>>

\* mutant: __aexit__ closes the transport only when the block ended without
\* an exception
AExit_NotOnException ==
    /\ Terminated
    /\ scope = "entered"
    /\ scope' = "exited"
    /\ transports' = IF session # 0 /\ pc = "returned"
                     THEN CloseTransport(transports, session) ELSE transports
    /\ UNCHANGED <<access_token, user_id, store, args, svars, evars, pc, attempt, headers,
                   refresh_token, new_token, result, answer, trace, session>>

\* __aexit__, when the call has returned or raised:
\* if self.session: await self.session.close()
AExit ==
    /\ Terminated
    /\ scope = "entered"
    /\ scope' = "exited"
    /\ transports' = IF session # 0 THEN CloseTransport(transports, session) ELSE transports
    /\ UNCHANGED <<access_token, user_id, store, args, svars, evars, pc, attempt, headers,
                   refresh_token, new_token, result, answer, trace, session>>

ScopeNext ==
    \/ AEnter
    \/ Next
    \/ AExit

ScopeSpec == ScopeInit /\ [][ScopeNext]_vars

(***************************************************************************)
(* The bot: refreshes of two clients of one user, the logout handler, the  *)
(* login conversation, and the passing of time, one action per await.      *)
(* The call of the client is left out here: a refresh starts when the      *)
(* client's request got a 401, and client.login(...) is what it gives.     *)
(***************************************************************************)
\* the client part of the state, unused by the bot's actions
ClientIdle ==
    /\ args = CHOOSE a \in CallArgs : a.method = "GET" /\ a.retry_on_401 /\ a.max_retries = 0
    /\ user_id = None
    /\ access_token = None
    /\ store = NoSession
    /\ pc = "idle"
    /\ attempt = 0
    /\ headers = get_headers(None)
    /\ refresh_token = None
    /\ new_token = None
    /\ result = NoResult
    /\ answer = NoAnswer
    /\ trace = <<>>
    /\ session = 0
    /\ scope = "new"
    /\ transports = <<>>

BotStart == BotInit /\ ClientIdle

ClientKey == get_key(ClientUser)

\* refresh_token = await user_storage.get_refresh_token(self.user_id)
ClientGetRefresh ==
    \E c \in Clients, redis_ok \in BOOLEAN :
        /\ procs[c].pc = "idle"
        /\ LET tok == get_refresh_token(redis_db[ClientKey].hash, redis_ok)
           IN  procs' = [procs EXCEPT ![c] =
                            IF TruthyStr(tok)
                            THEN [@ EXCEPT !.pc = "post", !.refresh_token = tok]
                            ELSE [@ EXCEPT !.pc = "done"]]
        /\ UNCHANGED <<redis_db, fsm, hist, cvars, evars>>

\* the POST to the refresh endpoint gives this client's new token, or nothing
ClientPost ==
    \E c \in Clients, ok \in BOOLEAN :
        /\ procs[c].pc = "post"
        /\ procs' = [procs EXCEPT ![c] =
                        IF ok THEN [@ EXCEPT !.pc = "hset_access", !.new_token = NewTokenFor(c)]
                        ELSE [@ EXCEPT !.pc = "done"]]
        /\ UNCHANGED <<redis_db, fsm, hist, cvars, evars>>

\* update_access_token: await redis_client.hset(key, 'access_token', access_token);
\* when it raises, the except clause logs, update_access_token returns, and
\* the client takes the new token
ClientHsetAccess ==
    \E c \in Clients, redis_ok \in BOOLEAN :
        /\ procs[c].pc = "hset_access"
        /\ IF redis_ok
           THEN /\ redis_db' = [redis_db EXCEPT
                                  ![ClientKey] = redis_hset(@, "access_token", procs[c].new_token)]
                /\ procs' = [procs EXCEPT ![c].pc = "hset_activity"]
                /\ hist' = [hist EXCEPT !.last_write = procs[c].new_token,
                                        !.last_set[ClientUser] = NoSet]
           ELSE /\ procs' = [procs EXCEPT ![c].pc = "done",
                                          ![c].access_token = procs[c].new_token]
                /\ hist' = [hist EXCEPT !.last_done = c]
                /\ UNCHANGED redis_db
        /\ UNCHANGED <<fsm, cvars, evars>>

\* update_access_token: await redis_client.hset(key, 'last_activity', ...); then
\* return new_access_token and self.access_token = new_token
ClientHsetActivity ==
    \E c \in Clients, redis_ok \in BOOLEAN :
        /\ procs[c].pc = "hset_activity"
        /\ redis_db' = IF redis_ok
                       THEN [redis_db EXCEPT
                               ![ClientKey] = redis_hset(@, "last_activity", "at refresh")]
                       ELSE redis_db
        /\ procs' = [procs EXCEPT ![c].pc = "done", ![c].access_token = procs[c].new_token]
        /\ hist' = [hist EXCEPT !.last_done = c]
        /\ UNCHANGED <<fsm, cvars, evars>>

\* a part of the session lifetime passes; Redis deletes the keys whose
\* lifetime is over
Tick ==
    /\ \E k \in Keys : redis_db[k].expires
    /\ redis_db' = [k \in Keys |-> redis_after(redis_db[k], SessionTTL \div TicksPerLifetime)]
    /\ hist' = [hist EXCEPT
                  !.last_set = [u \in Users |-> IF KeyExists(redis_db'[get_key(u)])
                                                THEN hist.last_set[u] ELSE NoSet],
                  !.last_write = IF KeyExists(redis_db'[ClientKey]) THEN hist.last_write ELSE None]
    /\ UNCHANGED <<procs, fsm, cvars, evars>>

\* cmd_logout: if await user_storage.is_authenticated(user_id)
LogoutCheck ==
    \E redis_ok \in BOOLEAN :
        /\ procs[LogoutProc].pc = "idle"
        /\ procs' = [procs EXCEPT ![LogoutProc].pc =
                        IF is_authenticated(redis_db[ClientKey], redis_ok)
                        THEN "remove" ELSE "done"]
        /\ UNCHANGED <<redis_db, fsm, hist, cvars, evars>>

\* cmd_logout: await user_storage.remove_user(user_id); a Redis error is
\* logged and swallowed
LogoutRemove ==
    \E redis_ok \in BOOLEAN :
        /\ procs[LogoutProc].pc = "remove"
        /\ redis_db' = IF redis_ok
                       THEN [redis_db EXCEPT ![ClientKey] = redis_delete(@)]
                       ELSE redis_db
        /\ procs' = [procs EXCEPT ![LogoutProc].pc = "done"]
        /\ hist' = [hist EXCEPT !.logged_out[ClientUser] = TRUE,
                                !.last_set[ClientUser] =
                                    IF redis_ok THEN NoSet ELSE hist.last_set[ClientUser]]
        /\ UNCHANGED <<fsm, cvars, evars>>

(***************************************************************************)
(* The login conversation: cmd_start, process_email, process_password.     *)
(***************************************************************************)
\* state.clear()
Cleared == [state |-> None, email |-> FALSE]

\* cmd_start: the conversation starts unless the user is authenticated
CmdStart ==
    \E u \in Users, redis_ok \in BOOLEAN :
        /\ ~is_authenticated(redis_db[get_key(u)], redis_ok)
        /\ fsm' = [fsm EXCEPT ![u].state = "waiting_for_email"]
        /\ UNCHANGED <<redis_db, procs, hist, cvars, evars>>

\* process_email: the cancel button, a text without '@', an email address
ProcessEmail ==
    \E u \in Users, text \in {"cancel", "no at sign", "email"} :
        /\ fsm[u].state = "waiting_for_email"
        /\ fsm' = [fsm EXCEPT ![u] =
                      CASE text = "cancel" -> Cleared
                        [] text = "no at sign" -> @
                        [] OTHER -> [state |-> "waiting_for_password", email |-> TRUE]]
        /\ UNCHANGED <<redis_db, procs, hist, cvars, evars>>

\* what client.login(email, password) gives: a raise, or the returned JSON
EmployeeChoices == {JObj(EmptyDict), JList} \cup {CHOOSE e \in EmployeeValues : TRUE}
TokenChoices ==
    {JObj([k \in {"access"} |-> JStr("b0")]),
     JObj([k \in {"access", "refresh"} |-> IF k = "access" THEN JStr("") ELSE JStr("rb")]),
     JObj([k \in {"access", "refresh"} |-> IF k = "access" THEN JStr("b0") ELSE JStr("rb")])}
LoginData ==
    {JObj([k \in D |-> IF k = "employee" THEN e ELSE t]) :
        D \in SUBSET {"employee", "tokens"}, e \in EmployeeChoices, t \in TokenChoices}
LoginResults ==
    {Raised([kind |-> "APIError"]), Returned(JList),
     Returned(JObj(EmptyDict)),
     Returned(JObj([k \in {"success", "message"} |->
                       IF k = "success" THEN JBool(FALSE) ELSE JStr("Invalid credentials")])),
     Returned(JObj([k \in {"success"} |-> JBool(TRUE)])),
     Returned(JObj([k \in {"success", "data"} |-> IF k = "success" THEN JBool(TRUE) ELSE JList]))}
    \cup {Returned(JObj([k \in {"success", "data"} |-> IF k = "success" THEN JBool(TRUE) ELSE d])) :
            d \in LoginData}

\* the employee and the tokens process_password reads from a login answer
EmployeeOf(v) == Get(Get(v, "data", JObj(EmptyDict)), "employee", JObj(EmptyDict))
TokensOf(v) == Get(Get(v, "data", JObj(EmptyDict)), "tokens", JObj(EmptyDict))

\* lines 95-121 of process_password: the branch the login answer leads to
PasswordOutcome(login) ==
    IF login.k = "raise" \/ ~HasGet(login.v) THEN "error"
    ELSE IF ~Truthy(Get(login.v, "success", JNull)) THEN "failed"
    ELSE IF ~HasGet(Get(login.v, "data", JObj(EmptyDict))) THEN "error"
    ELSE IF ~Truthy(EmployeeOf(login.v)) THEN "no_employee"
    ELSE IF ~HasGet(TokensOf(login.v)) THEN "error"
    ELSE IF ~Truthy(Get(TokensOf(login.v), "access", JNull))
            \/ ~Truthy(Get(TokensOf(login.v), "refresh", JNull)) THEN "no_tokens"
    ELSE "store"

\* a run of process_password ends with the given conversation state
PasswordEnds(u, new_fsm) ==
    /\ fsm' = [fsm EXCEPT ![u] = new_fsm]
    /\ procs' = [procs EXCEPT ![PasswordProc(u)] =
                    [pc |-> "idle", login |-> NoLogin, before |-> NoKey]]

\* the branches that end with set_state(LoginStates.waiting_for_email)
PasswordFails(u) ==
    PasswordEnds(u, [fsm[u] EXCEPT !.state = "waiting_for_email"])

\* process_password up to the answer of client.login
PasswordStart ==
    \E u \in Users, text \in {"cancel", "password"}, login \in LoginResults :
        /\ fsm[u].state = "waiting_for_password"
        /\ procs[PasswordProc(u)].pc = "idle"
        /\ UNCHANGED <<redis_db, hist, cvars, evars>>
        /\ IF text = "cancel"
           THEN PasswordEnds(u, Cleared)
           ELSE IF ~fsm[u].email
           THEN PasswordFails(u)
           ELSE IF PasswordOutcome(login) = "store"
           THEN /\ procs' = [procs EXCEPT ![PasswordProc(u)] =
                                [@ EXCEPT !.pc = "hset", !.login = login,
                                          !.before = redis_db[get_key(u)]]]
                /\ UNCHANGED fsm
           ELSE PasswordFails(u)

\* set_user_data: await redis_client.hset(key, mapping=session_data)
PasswordHset ==
    \E u \in Users, redis_ok \in BOOLEAN :
        LET p == procs[PasswordProc(u)]
            access == Get(TokensOf(p.login.v), "access", JNull).s
            refresh == Get(TokensOf(p.login.v), "refresh", JNull).s
            employee == EmployeeOf(p.login.v)
        IN  /\ p.pc = "hset"
            /\ UNCHANGED <<cvars, evars>>
            /\ IF redis_ok
               THEN /\ redis_db' = [redis_db EXCEPT ![get_key(u)] =
                                      redis_hset_mapping(@, session_data(access, refresh, employee))]
                    /\ procs' = [procs EXCEPT ![PasswordProc(u)].pc = "expire"]
                    /\ hist' = [hist EXCEPT
                                  !.logged_out[u] = FALSE,
                                  !.last_set[u] = [access |-> access, refresh |-> refresh,
                                                   employee |-> employee]]
                    /\ UNCHANGED fsm
               ELSE /\ UNCHANGED <<redis_db, hist>>
                    /\ PasswordFails(u)

\* set_user_data: await redis_client.expire(key, 7 * 24 * 60 * 60)
PasswordExpire ==
    \E u \in Users, redis_ok \in BOOLEAN :
        LET p == procs[PasswordProc(u)]
        IN  /\ p.pc = "expire"
            /\ UNCHANGED <<hist, cvars, evars>>
            /\ IF redis_ok
               THEN /\ redis_db' = [redis_db EXCEPT ![get_key(u)] = redis_expire(@, SessionTTL)]
                    /\ procs' = [procs EXCEPT ![PasswordProc(u)].pc = "answer"]
                    /\ UNCHANGED fsm
               ELSE /\ UNCHANGED redis_db
                    /\ PasswordFails(u)

\* lines 132-143: employee.get('role') and await message.answer(...), which
\* Telegram may refuse
PasswordAnswer ==
    \E u \in Users, sent \in BOOLEAN :
        LET p == procs[PasswordProc(u)]
        IN  /\ p.pc = "answer"
            /\ UNCHANGED <<redis_db, hist, cvars, evars>>
            /\ IF HasGet(EmployeeOf(p.login.v)) /\ sent
               THEN /\ procs' = [procs EXCEPT ![PasswordProc(u)].pc = "clear"]
                    /\ UNCHANGED fsm
               ELSE PasswordFails(u)

\* await state.clear()
PasswordClear ==
    \E u \in Users :
        LET p == procs[PasswordProc(u)]
        IN  /\ p.pc = "clear"
            /\ UNCHANGED <<redis_db, hist, cvars, evars>>
            /\ PasswordEnds(u, Cleared)

\* two clients of one user refresh while time passes
RaceNext ==
    \/ ClientGetRefresh
    \/ ClientPost
    \/ ClientHsetAccess
    \/ ClientHsetActivity
    \/ Tick

RaceSpec == BotStart /\ [][RaceNext]_vars

\* the login conversations of the users
LoginNext ==
    \/ CmdStart
    \/ ProcessEmail
    \/ PasswordStart
    \/ PasswordHset
    \/ PasswordExpire
    \/ PasswordAnswer
    \/ PasswordClear

LoginSpec == BotStart /\ [][LoginNext]_vars

\* everything the bot does with the store: the refresh of one client (the
\* other one found no refresh token and is through), the logout, and
\* process_password of users whose conversation waits for the password
SessionStart ==
    /\ ClientIdle
    /\ BotState([u \in Users |-> [state |-> "waiting_for_password", email |-> TRUE]],
                {CHOOSE c \in Clients : TRUE})

SessionNext ==
    \/ RaceNext
    \/ LogoutCheck
    \/ LogoutRemove
    \/ PasswordStart
    \/ PasswordHset
    \/ PasswordExpire
    \/ PasswordAnswer
    \/ PasswordClear

SessionSpec == SessionStart /\ [][SessionNext]_vars

(***************************************************************************)
(* The employees handlers (handlers/employees.py) of one caller, for one   *)
(* target employee: the create conversation, the edit conversation, the    *)
(* deletion.  A call of the client is taken by its outcome.                *)
(***************************************************************************)
\* client.get_employee(employee_id): {success: true, data: {role: ...}}, an
\* envelope without a truthy success, or a raise
GetEmployeeOutcomes == {"ok", "failed", "raised"}

\* a request: its method, the field and the role of its payload, the button
\* that led to it, and for a DELETE the role the backend holds for the target
Request(method, field, role, button) ==
    [method |-> method, field |-> field, role |-> role, button |-> button,
     target |-> IF method = "DELETE" THEN backend_role ELSE NoRole]

\* state.clear()
ClearConversation ==
    /\ conv' = NoConversation
    /\ pressed' = NoButton

\* the role of the target employee changes in the backend
BackendRoleChanges ==
    /\ \E r \in TargetRoles \ {backend_role} : backend_role' = r
    /\ last_request' = NoRequest
    /\ UNCHANGED <<caller_role, conv, keyboard, confirm_shown, pressed,
                   cvars, svars>>

\* create_employee_start
CreateEmployeeStart ==
    /\ conv' = IF can_create_employee(caller_role)
               THEN [conv EXCEPT !.state = "waiting_for_email"] ELSE conv
    /\ last_request' = NoRequest
    /\ UNCHANGED <<caller_role, backend_role, keyboard, confirm_shown, pressed,
                   cvars, svars>>

\* the states of the texts asked one after the other
NextTextState ==
    [st \in {"waiting_for_email", "waiting_for_first_name", "waiting_for_last_name",
             "waiting_for_full_name", "waiting_for_password"} |->
        CASE st = "waiting_for_email" -> "waiting_for_first_name"
          [] st = "waiting_for_first_name" -> "waiting_for_last_name"
          [] st = "waiting_for_last_name" -> "waiting_for_full_name"
          [] st = "waiting_for_full_name" -> "waiting_for_password"
          [] st = "waiting_for_password" -> "waiting_for_password_confirm"]

\* process_employee_email ... process_employee_password
ProcessEmployeeText ==
    \E text \in {"cancel", "text"} :
        /\ conv.state \in DOMAIN NextTextState
        /\ IF text = "cancel"
           THEN ClearConversation
           ELSE /\ conv' = [conv EXCEPT !.state = NextTextState[conv.state]]
                /\ UNCHANGED pressed
        /\ last_request' = NoRequest
        /\ UNCHANGED <<caller_role, backend_role, keyboard, confirm_shown,
                       cvars, svars>>

\* process_employee_password_confirm
ProcessEmployeePasswordConfirm ==
    \E text \in {"cancel", "other password", "password"} :
        /\ conv.state = "waiting_for_password_confirm"
        /\ CASE text = "cancel" -> ClearConversation /\ UNCHANGED keyboard
             [] text = "other password" -> UNCHANGED <<conv, pressed, keyboard>>
             [] OTHER ->
                  /\ keyboard' = RoleKeyboard(CreatePrefix, CancelCreate, caller_role)
                  /\ conv' = [conv EXCEPT !.state = "waiting_for_role"]
                  /\ UNCHANGED pressed
        /\ last_request' = NoRequest
        /\ UNCHANGED <<caller_role, backend_role, confirm_shown,
                       cvars, svars>>

\* process_employee_role: role = callback.data.split("_")[1]
ProcessEmployeeRole ==
    \E i \in DOMAIN keyboard :
        /\ conv.state = "waiting_for_role"
        /\ startswith(keyboard[i].callback_data, CreatePrefix)
        /\ conv' = [conv EXCEPT !.role = split(keyboard[i].callback_data)[2],
                                !.state = "waiting_for_professionality"]
        /\ pressed' = keyboard[i]
        /\ last_request' = NoRequest
        /\ UNCHANGED <<caller_role, backend_role, keyboard, confirm_shown,
                       cvars, svars>>

\* cancel_create_employee_callback
CancelCreateEmployee ==
    /\ \E i \in DOMAIN keyboard : keyboard[i].callback_data = CancelCreate
    /\ ClearConversation
    /\ last_request' = NoRequest
    /\ UNCHANGED <<caller_role, backend_role, keyboard, confirm_shown,
                   cvars, svars>>

\* process_employee_professionality: client.create_employee(employee_data)
ProcessEmployeeProfessionality ==
    \E text \in {"cancel", "text"} :
        /\ conv.state = "waiting_for_professionality"
        /\ last_request' = IF text = "cancel" THEN NoRequest
                           ELSE Request("POST", "role", conv.role, pressed)
        /\ ClearConversation
        /\ UNCHANGED <<caller_role, backend_role, keyboard, confirm_shown,
                       cvars, svars>>

\* edit_employee_start
EditEmployeeStart ==
    \E o \in GetEmployeeOutcomes :
        /\ IF o = "ok"
           THEN conv' = IF can_update_employee(caller_role, backend_role)
                        THEN [conv EXCEPT !.state = "waiting_for_field", !.employee_id = TRUE]
                        ELSE conv
           ELSE UNCHANGED conv
        /\ last_request' = NoRequest
        /\ UNCHANGED <<caller_role, backend_role, keyboard, confirm_shown, pressed,
                       cvars, svars>>

\* process_edit_employee_field
ProcessEditEmployeeField ==
    \E text \in {"cancel", "1", "2", "4", "x"} :
        /\ conv.state = "waiting_for_field"
        /\ CASE text = "cancel" ->
                  /\ last_request' = NoRequest
                  /\ ClearConversation
                  /\ UNCHANGED keyboard
             [] text = "x" ->
                  /\ last_request' = NoRequest
                  /\ UNCHANGED <<conv, pressed, keyboard>>
             [] text = "4" ->
                  /\ last_request' = Request("PATCH", "is_active", NoRole, NoButton)
                  /\ ClearConversation
                  /\ UNCHANGED keyboard
             [] text = "2" ->
                  /\ keyboard' = RoleKeyboard(EditPrefix, CancelEdit, caller_role)
                  /\ conv' = [conv EXCEPT !.state = "waiting_for_value"]
                  /\ last_request' = NoRequest
                  /\ UNCHANGED pressed
             [] OTHER ->
                  /\ conv' = [conv EXCEPT !.state = "waiting_for_value",
                                          !.field_name = "full_name"]
                  /\ last_request' = NoRequest
                  /\ UNCHANGED <<pressed, keyboard>>
        /\ UNCHANGED <<caller_role, backend_role, confirm_shown, cvars, svars>>

\* process_edit_role_callback: role = callback.data.split("_")[2], then
\* update_employee_field_from_callback: client.update_employee(id, {'role': role})
ProcessEditRoleCallback ==
    \E i \in DOMAIN keyboard :
        /\ startswith(keyboard[i].callback_data, EditPrefix)
        /\ last_request' = Request("PATCH", "role", split(keyboard[i].callback_data)[3],
                                   keyboard[i])
        /\ ClearConversation
        /\ UNCHANGED <<caller_role, backend_role, keyboard, confirm_shown,
                       cvars, svars>>

\* process_edit_employee_value and update_employee_field
ProcessEditEmployeeValue ==
    \E text \in {"cancel", "text"} :
        /\ conv.state = "waiting_for_value"
        /\ last_request' = IF text = "cancel" THEN NoRequest
                           ELSE Request("PATCH", conv.field_name, NoRole, NoButton)
        /\ ClearConversation
        /\ UNCHANGED <<caller_role, backend_role, keyboard, confirm_shown,
                       cvars, svars>>

\* cancel_edit_employee_callback
CancelEditEmployee ==
    /\ \E i \in DOMAIN keyboard : keyboard[i].callback_data = CancelEdit
    /\ ClearConversation
    /\ last_request' = NoRequest
    /\ UNCHANGED <<caller_role, backend_role, keyboard, confirm_shown,
                   cvars, svars>>

\* delete_employee_confirm: the confirm button is shown when the check passes
DeleteEmployeeConfirm ==
    \E o \in GetEmployeeOutcomes :
        /\ IF o = "ok"
           THEN /\ confirm_shown' =
                      (confirm_shown \/ can_delete_employee(caller_role, backend_role))
                /\ conv' = IF can_delete_employee(caller_role, backend_role)
                           THEN [conv EXCEPT !.employee_id = TRUE] ELSE conv
           ELSE UNCHANGED <<confirm_shown, conv>>
        /\ last_request' = NoRequest
        /\ UNCHANGED <<caller_role, backend_role, keyboard, pressed,
                       cvars, svars>>

\* delete_employee_execute; deleted: client.delete_employee gave success, and
\* the message with the confirm button is edited
DeleteEmployeeExecute ==
    \E o \in GetEmployeeOutcomes, deleted \in BOOLEAN :
        /\ confirm_shown
        /\ ClearConversation
        /\ IF o = "raised" \/ (o = "ok" /\ ~can_delete_employee(caller_role, backend_role))
           THEN last_request' = NoRequest /\ UNCHANGED confirm_shown
           ELSE /\ last_request' = Request("DELETE", NoField, NoRole, NoButton)
                /\ confirm_shown' = ~deleted
        /\ UNCHANGED <<caller_role, backend_role, keyboard, cvars, svars>>

EmployeesNext ==
    \/ BackendRoleChanges
    \/ CreateEmployeeStart
    \/ ProcessEmployeeText
    \/ ProcessEmployeePasswordConfirm
    \/ ProcessEmployeeRole
    \/ CancelCreateEmployee
    \/ ProcessEmployeeProfessionality
    \/ EditEmployeeStart
    \/ ProcessEditEmployeeField
    \/ ProcessEditRoleCallback
    \/ ProcessEditEmployeeValue
    \/ CancelEditEmployee
    \/ DeleteEmployeeConfirm
    \/ DeleteEmployeeExecute

EmployeesInit ==
    /\ ClientIdle
    /\ StoreState([u \in Users |-> [state |-> None, email |-> FALSE]], Clients)
    /\ EmployeesIdle(RoleValues, TargetRoles)

EmployeesSpec == EmployeesInit /\ [][EmployeesNext]_vars

(***************************************************************************)
(* Reading the trace.                                                      *)
(***************************************************************************)
Events(kind) == {i \in DOMAIN trace : trace[i].ev = kind}
\* the requests sent to the target URL: all of them, those of the attempt
\* loop, and those re-issued after a refresh
RequestsSent == Events("request")
LoopRequests == {i \in RequestsSent : ~trace[i].retry}
RetriedRequests == {i \in RequestsSent : trace[i].retry}
\* the refreshes that gave a new token, and those that gave none
RefreshesOk == {i \in Events("refresh_result") : trace[i].token # None}
RefreshesFailed == {i \in Events("refresh_result") : trace[i].token = None}
\* the transport failures that are not taken for a misparsed 204
TransientFailures == {i \in Events("client_error") : ~trace[i].misparsed}
SetMin(S) == CHOOSE x \in S : \A y \in S : x <= y
SetMax(S) == CHOOSE x \in S : \A y \in S : x >= y
Min2(a, b) == IF a <= b THEN a ELSE b
\* the value of the field success of a returned JSON object is truthy
TruthySuccess(v) == v.t = "obj" /\ "success" \in DOMAIN v.f /\ Truthy(v.f["success"])
EndedByAnswer(status) == Terminated /\ answer # NoAnswer /\ answer.status = status

(***************************************************************************)
(* C1.  Every call whose HTTP answer has status 400, whatever its body,    *)
(* returns an envelope with success = false and never raises.              *)
(* The code parses the body before it looks at the status: a 400 whose     *)
(* body is not JSON raises "Invalid JSON response", and a 400 whose JSON   *)
(* body is not an object raises AttributeError.                            *)
(***************************************************************************)
C1_Status400ReturnsEnvelope ==
    EndedByAnswer(400) =>
        /\ pc = "returned"
        /\ result.v.t = "obj"
        /\ "success" \in DOMAIN result.v.f
        /\ result.v.f["success"] = JBool(FALSE)

(***************************************************************************)
(* C2.  When the first answer is a 401, retry_on_401 holds, a session      *)
(* identifier is present and the refresh succeeds, exactly one request is  *)
(* sent after the refresh, and it carries the new token, also when that    *)
(* request fails at the transport level.                                   *)
(* The re-issued request is sent inside the try of the attempt loop: when  *)
(* it fails with a ClientError and attempts remain, the loop sleeps and    *)
(* sends the request again with the new token.                             *)
(***************************************************************************)
FirstAnswerIs401 ==
    /\ Len(trace) >= 2
    /\ trace[2].ev = "response"
    /\ trace[2].status = 401

C2_ExactlyOneRetriedRequest ==
    (FirstAnswerIs401 /\ args.retry_on_401 /\ TruthyStr(user_id) /\ RefreshesOk # {}) =>
        LET first == SetMin(RefreshesOk)
            after == {i \in RequestsSent : i > first}
        IN  /\ Cardinality(after) <= 1
            /\ Terminated => Cardinality(after) = 1
            /\ \A i \in after : trace[i].req.headers = get_headers(trace[first].token)

(***************************************************************************)
(* C3.  Within one call the refresh sub-protocol is invoked at most once,  *)
(* whatever the answers and transport failures of the attempts are.        *)
(* A 401 on the attempt that follows a failed re-issued request starts a   *)
(* second refresh.                                                         *)
(***************************************************************************)
C3_RefreshAtMostOnce == Cardinality(Events("refresh")) <= 1

(***************************************************************************)
(* C4.  A 401 answer to the request re-issued after a successful refresh   *)
(* makes the call raise: nothing follows it, neither a refresh nor a       *)
(* request nor a sleep.                                                    *)
(***************************************************************************)
Retried401 == {i \in Events("response") : trace[i].retry /\ trace[i].status = 401}

C4_Second401Raises ==
    \A i \in Retried401 :
        /\ i = Len(trace)
        /\ pc = "raised"
        /\ result.k = "raise"
        /\ result.e.kind \in {"APIError", "AttributeError", "InvalidJSON"}

C4_Witness ==
    /\ Retried401 # {}
    /\ pc = "raised"
    /\ result.e.kind = "APIError"
    /\ result.e.status = 401

(***************************************************************************)
(* C5.  When the answers of a call are transient transport failures,       *)
(* followed or not by one answer that ends the call (no answer starts a    *)
(* refresh), the number of requests the attempt loop sends is              *)
(* min(max_retries + 1, number of the first attempt that did not fail).    *)
(***************************************************************************)
\* the attempt whose request is trace[i] failed with a transient error
AttemptFailed(i) == (i + 1) \in TransientFailures
AttemptNumber(i) == Cardinality({j \in LoopRequests : j <= i})
NonFailingAttempts == {i \in LoopRequests : ~AttemptFailed(i)}
ExpectedAttempts ==
    IF NonFailingAttempts = {}
    THEN args.max_retries + 1
    ELSE Min2(args.max_retries + 1, AttemptNumber(SetMin(NonFailingAttempts)))

C5_AttemptCount ==
    (Terminated /\ Events("refresh") = {}) =>
        /\ Cardinality(LoopRequests) = ExpectedAttempts
        /\ Cardinality(RequestsSent) = ExpectedAttempts

\* two failures, then an answer, with max_retries = 2: three attempts
C5_Witness ==
    /\ Terminated
    /\ Events("refresh") = {}
    /\ args.max_retries = 2
    /\ Cardinality(TransientFailures) = 2
    /\ NonFailingAttempts # {}
    /\ Cardinality(LoopRequests) = 3

(***************************************************************************)
(* C6.  The sleep after failed attempt k (counted from 0) lasts 2 * (k+1)  *)
(* seconds; a sleep follows a transport failure and is followed by the     *)
(* next attempt; no sleep follows attempt max_retries, the final one.      *)
(***************************************************************************)
\* the 0-based number of the attempt that the event trace[i] belongs to,
\* L being the requests of the attempt loop
AttemptIn(L, i) == Cardinality({j \in L : j < i}) - 1
AttemptOf(i) == AttemptIn(LoopRequests, i)

AllAttemptsFailed == Cardinality(TransientFailures) = args.max_retries + 1
LooksLikeTimeout(e) == "timeout" \in e.markers \/ TypeNameHasTimeoutError(e.etype)
LooksLikeConnection(e) == "connection" \in e.markers \/ TypeNameHasConnection(e.etype)

C7_ExhaustedRaisesClassified ==
    AllAttemptsFailed =>
        /\ pc = "raised"
        /\ result.k = "raise"
        /\ result.e.kind \in {"ConnectionTimeout", "ConnectionError", "NetworkError"}
        /\ result.e.context \in ClientErrors
        /\ ~IsMisparsed204(result.e.context)
        /\ result.e.kind = "ConnectionTimeout" <=> LooksLikeTimeout(result.e.context)
        /\ result.e.kind = "ConnectionError" <=>
              (~LooksLikeTimeout(result.e.context) /\ LooksLikeConnection(result.e.context))

\* a last failure that is both a timeout and a connection failure
C7_Witness ==
    /\ AllAttemptsFailed
    /\ args.max_retries = 2
    /\ pc = "raised"
    /\ result.e.kind = "ConnectionTimeout"
    /\ LooksLikeConnection(result.e.context)

(***************************************************************************)
(* C8.  Every request of one call carries the method, URL, JSON body and   *)
(* query parameters of the first one; only the Authorization header may    *)
(* differ from the first request's, and only after a successful refresh.   *)
(***************************************************************************)
C8_RequestsIdentical ==
    LET R == RequestsSent
        ok == RefreshesOk
        f == trace[SetMin(R)].req
    IN  \A i \in R :
            LET r == trace[i].req
            IN  /\ r.method = f.method
                /\ r.url = f.url
                /\ r.json = f.json
                /\ r.params = f.params
                /\ r.headers["Content-Type"] = f.headers["Content-Type"]
                /\ r.headers # f.headers => \E j \in ok : j < i

\* a re-issued request with another Authorization header, and a request of
\* the attempt loop after it
C8_Witness ==
    \E i \in RetriedRequests :
        /\ trace[i].req.headers # trace[SetMin(RequestsSent)].req.headers
        /\ trace[i].req.params # None
        /\ \E j \in LoopRequests : j > i

(***************************************************************************)
(* C9 as stated.  A 204 answer, to a request of the loop or to the         *)
(* re-issued one, makes the call return: the body itself when it parses as *)
(* JSON with a truthy success, else the synthesized success envelope.      *)
(* The code reads the body only under a positive Content-Length header: a  *)
(* 204 whose body has a truthy success but whose Content-Length is absent  *)
(* or "0" gives the synthesized envelope, not the body.                    *)
(***************************************************************************)
C9_Original ==
    EndedByAnswer(204) =>
        /\ pc = "returned"
        /\ result.v = IF TruthySuccess(answer.body) THEN answer.body ELSE SynthesizedSuccess

(***************************************************************************)
(* C9 as amended.  A 204 answer makes the call return a JSON object with a *)
(* truthy success and never raise: the body itself when the answer has a   *)
(* positive Content-Length and the body parses as a JSON object with a     *)
(* truthy success, else the synthesized success envelope.                  *)
(***************************************************************************)
C9_Status204Success ==
    EndedByAnswer(204) =>
        /\ pc = "returned"
        /\ result.k = "return"
        /\ TruthySuccess(result.v)
        /\ result.v = IF answer.clen = "17" /\ TruthySuccess(answer.body)
                      THEN answer.body ELSE SynthesizedSuccess

\* a 204 to the re-issued request, with a truthy success in its body and no
\* Content-Length
C9_Witness ==
    /\ EndedByAnswer(204)
    /\ trace[Len(trace)].retry
    /\ answer.clen = None
    /\ TruthySuccess(answer.body)
    /\ result.v = SynthesizedSuccess
    /\ result.v # answer.body

(***************************************************************************)
(* C10.  A refresh that gives no new token ends the call: the call raises  *)
(* the authentication error, no request follows the refresh, and the       *)
(* client's access token and the store's are what they were when the       *)
(* refresh was invoked.                                                    *)
(***************************************************************************)
C10_FailedRefreshRaises ==
    \A i \in RefreshesFailed :
        LET inv == SetMax({j \in Events("refresh") : j < i})
        IN  /\ i = Len(trace)
            /\ pc = "raised"
            /\ result.k = "raise"
            /\ result.e.kind = "AuthenticationFailed"
            /\ {j \in RequestsSent : j > inv} = {}
            /\ access_token = trace[inv].access_token
            /\ hget(store, "access_token") = trace[inv].store_access

\* the refresh endpoint was asked and gave no token, for a logged-in user
C10_Witness ==
    /\ RefreshesFailed # {}
    /\ Events("refresh_post") # {}
    /\ pc = "raised"
    /\ access_token = OldAccess
    /\ hget(store, "access_token") = OldAccess

(***************************************************************************)
(* C11 as stated.  Whenever a refresh succeeds, the new access token T is  *)
(* written to the store under the client's session identifier before the   *)
(* re-issued request is sent: when the in-memory token is replaced by T,   *)
(* the store's access token is T.                                          *)
(* update_access_token logs and swallows every Redis error: when the hset  *)
(* fails the refresh still returns T, the in-memory token becomes T and    *)
(* the store keeps the old access token.                                   *)
(***************************************************************************)
C11_Original ==
    /\ \A r \in RefreshesOk :
        /\ trace[r - 1].ev = "store_write"
        /\ trace[r - 1].token = trace[r].token
        /\ trace[r - 1].stored = trace[r].token
        /\ r = Len(trace) =>
              /\ pc = "retry"
              /\ access_token = trace[r].token
              /\ hget(store, "access_token") = access_token
    /\ \A j \in RetriedRequests : (j - 1) \in RefreshesOk

(***************************************************************************)
(* C11 as amended.  Whenever a refresh succeeds, update_access_token is    *)
(* called with the new token T before the in-memory token is replaced and  *)
(* before the re-issued request is sent.  When Redis accepts the write,    *)
(* the store's access token is T at the moment the in-memory token is      *)
(* replaced by T; when Redis rejects it, the in-memory token is replaced   *)
(* all the same and the store keeps the access token it had.               *)
(***************************************************************************)
C11_StoreWrittenBeforeRetry ==
    LET I == Events("refresh")
    IN  /\ \A r \in RefreshesOk :
            LET w == trace[r - 1]
                inv == SetMax({j \in I : j < r})
            IN  /\ w.ev = "store_write"
                /\ w.token = trace[r].token
                /\ w.stored = IF w.accepted THEN trace[r].token ELSE trace[inv].store_access
                /\ r = Len(trace) =>
                      /\ pc = "retry"
                      /\ access_token = trace[r].token
                      /\ hget(store, "access_token") = w.stored
        /\ \A j \in RetriedRequests :
            /\ (j - 1) \in RefreshesOk
            /\ trace[j].req.headers = get_headers(trace[j - 1].token)

\* the in-memory token was just replaced, Redis took the write, and the
\* re-issued request is not sent yet
C11_Witness ==
    /\ pc = "retry"
    /\ trace[Len(trace) - 1].ev = "store_write"
    /\ trace[Len(trace) - 1].accepted
    /\ access_token # OldAccess
    /\ hget(store, "access_token") = access_token

(***************************************************************************)
(* C12 as stated.  No step of the client changes the refresh token held in *)
(* the store, and a refresh writes the access token only: every other      *)
(* field of the session hash is left as it was.                            *)
(* update_access_token also sets the field last_activity.                  *)
(***************************************************************************)
C12_Original ==
    [][\A f \in (DOMAIN store \cup DOMAIN store') \ {"access_token"} :
          hget(store', f) = hget(store, f)]_vars

(***************************************************************************)
(* C12 as amended.  No step of the client changes the refresh token (or    *)
(* the employee profile) held in the store: only the store write of a      *)
(* successful refresh changes the session hash, and it writes the fields   *)
(* access_token and last_activity only.                                    *)
(***************************************************************************)
C12_RefreshTokenKept ==
    [][/\ \A f \in (DOMAIN store \cup DOMAIN store') \ {"access_token", "last_activity"} :
            hget(store', f) = hget(store, f)
       /\ store' # store => pc = "refresh_update"]_vars

\* a refresh has written the store, and the refresh token is the one of the login
C12_Witness ==
    /\ RefreshesOk # {}
    /\ hget(store, "access_token") \notin {OldAccess, None}
    /\ hget(store, "last_activity") = "at refresh"
    /\ hget(store, "refresh_token") = "r0"

(***************************************************************************)
(* C13.  Every transport the client opens (by __aenter__, lazily in        *)
(* _request, or in the refresh sub-protocol) is closed when the caller's   *)
(* async with block has ended, whether the call returned or raised; the    *)
(* transport of the refresh is closed as soon as the refresh is over.      *)
(***************************************************************************)
OpenTransports == {n \in DOMAIN transports : transports[n].open}

Refreshable401(i) ==
    /\ trace[i].status = 401
    /\ ~trace[i].retry
    /\ args.retry_on_401
    /\ TruthyStr(user_id)
ErrorAnswers ==
    {i \in Events("response") :
        trace[i].status >= 400 /\ trace[i].status # 400 /\ ~Refreshable401(i)}

C14_NoBackoffOnStatus ==
    LET E == ErrorAnswers
        S == Events("sleep")
        F == Events("client_error")
    IN  /\ \A i \in E :
            /\ i = Len(trace)
            /\ pc = "raised"
            /\ result.k = "raise"
            /\ trace[i - 1].ev = "request"
            /\ i = 2 => Cardinality(RequestsSent) = 1 /\ S = {}
        /\ \A i \in S : (i - 1) \in F
        /\ \A i \in LoopRequests : i > 1 => (i - 1) \in S

\* a 500 is the first answer of a call that may retry twice
C14_Witness ==
    /\ args.max_retries = 2
    /\ Len(trace) = 2
    /\ trace[2].ev = "response"
    /\ trace[2].status = 500
    /\ pc = "raised"
    /\ result.e.kind = "APIError"
    /\ Cardinality(RequestsSent) = 1

(***************************************************************************)
(* C15.  A transport error with the misparsed-204 signature, on any        *)
(* attempt, makes the call return the synthesized success envelope at      *)
(* once: no sleep and no request follow it, and the call does not raise.   *)
(***************************************************************************)
Misparsed204s == {i \in Events("client_error") : trace[i].misparsed}

C15_Misparsed204Returns ==
    \A i \in Misparsed204s :
        /\ i = Len(trace)
        /\ pc = "returned"
        /\ result = Returned(SynthesizedSuccess)
        /\ trace[i - 1].ev = "request"

\* the signature shows on the second attempt, with attempts left
C15_Witness ==
    /\ Misparsed204s # {}
    /\ args.max_retries = 2
    /\ Cardinality(LoopRequests) = 2
    /\ Cardinality(Events("sleep")) = 1
    /\ pc = "returned"

(***************************************************************************)
(* C16 as stated.  The refresh sub-protocol never raises to its caller and *)
(* sends at most one POST per invocation; it gives the value of the access *)
(* field when the answer is a 200 with an access field, and no new token   *)
(* for every other outcome.                                                *)
(* The code tests the truth value of the field: a 200 whose access field   *)
(* is empty gives no new token.                                            *)
(***************************************************************************)
\* ans is an HTTP 200 whose body is a JSON object with the key access
HasAccessField(ans) ==
    /\ ans # NoAnswer
    /\ ans.status = 200
    /\ ans.body.t = "obj"
    /\ "access" \in DOMAIN ans.body.f
\* the invocations of the refresh are as many as their results, but for the
\* one that is under way
RefreshAlwaysYields ==
    Cardinality(Events("refresh")) =
        Cardinality(Events("refresh_result"))
        + (IF pc \in {"refresh_get", "refresh_post", "refresh_update"} THEN 1 ELSE 0)

C16_Original ==
    LET I == Events("refresh")
        P == Events("refresh_post")
    IN  /\ RefreshAlwaysYields
        /\ \A r \in Events("refresh_result") :
            LET inv == SetMax({j \in I : j < r})
                posts == {j \in P : inv < j /\ j < r}
            IN  /\ Cardinality(posts) <= 1
                /\ trace[r].token =
                      IF posts # {} /\ HasAccessField(trace[SetMax(posts)].answer)
                      THEN trace[SetMax(posts)].answer.body.f["access"].s
                      ELSE None

(***************************************************************************)
(* C16 as amended.  The refresh sub-protocol never raises to its caller    *)
(* and sends at most one POST per invocation; it gives the value of the    *)
(* access field when the answer is a 200 whose JSON object body has a      *)
(* non-empty access field, and no new token for every other outcome        *)
(* (absent refresh token, non-200, missing or empty field, a body that is  *)
(* no JSON object, transport exception).                                   *)
(***************************************************************************)
C16_RefreshOutcome ==
    LET I == Events("refresh")
        P == Events("refresh_post")
    IN  /\ RefreshAlwaysYields
        /\ \A r \in Events("refresh_result") :
            LET inv == SetMax({j \in I : j < r})
                posts == {j \in P : inv < j /\ j < r}
            IN  /\ Cardinality(posts) <= 1
                /\ trace[r].token =
                      IF posts # {} /\ HasAccessField(trace[SetMax(posts)].answer)
                         /\ trace[SetMax(posts)].answer.body.f["access"].s # ""
                      THEN trace[SetMax(posts)].answer.body.f["access"].s
                      ELSE None

\* a 200 with an empty access field: no new token, and the call raises
C16_Witness ==
    /\ pc = "raised"
    /\ Len(trace) >= 2
    /\ trace[Len(trace)].ev = "refresh_result"
    /\ trace[Len(trace)].token = None
    /\ trace[Len(trace) - 1].ev = "refresh_post"
    /\ HasAccessField(trace[Len(trace) - 1].answer)

(***************************************************************************)
(* C17.  When the client has no session identifier, or retry_on_401 is     *)
(* false, the refresh is never invoked: the refresh token is not read and  *)
(* no POST goes to the refresh endpoint; a 401 as the first answer then    *)
(* raises the generic API error after exactly one request.                 *)
(* The body of the 401 is parsed and read before the error is built: a 401 *)
(* whose body is not JSON raises "Invalid JSON response", and one whose    *)
(* JSON body is not an object raises AttributeError (as for C1).           *)
(***************************************************************************)
C17_NoRefreshWithoutSession ==
    (~TruthyStr(user_id) \/ ~args.retry_on_401) =>
        /\ Events("refresh") = {}
        /\ Events("refresh_post") = {}
        /\ pc \notin {"refresh_get", "refresh_post", "refresh_update", "retry"}
        /\ refresh_token = None
        /\ FirstAnswerIs401 =>
              /\ pc = "raised"
              /\ result.e.kind = "APIError"
              /\ result.e.status = 401
              /\ Cardinality(RequestsSent) = 1

(***************************************************************************)
(* C18.  An answer with a status below 400 other than 204 whose body       *)
(* parses as JSON makes the call return the parsed body itself, whatever   *)
(* it is (list, null, object with or without success), and nothing follows *)
(* it: the requests sent are one, plus one for each transport failure and  *)
(* each successful refresh before it.                                      *)
(***************************************************************************)
EndedByOkAnswer ==
    /\ Terminated
    /\ answer # NoAnswer
    /\ answer.status < 400
    /\ answer.status # 204
\* every request but the last was followed by a transient failure or by a
\* 401 and a successful refresh
OneRequestPerAnswer ==
    /\ trace[Len(trace)].ev = "response"
    /\ trace[Len(trace) - 1].ev = "request"
    /\ Cardinality(RequestsSent) =
          Cardinality(TransientFailures) + Cardinality(RefreshesOk) + 1

C18_ParsedBodyReturned ==
    (EndedByOkAnswer /\ answer.body \in JsonBodies) =>
        /\ pc = "returned"
        /\ result = Returned(answer.body)
        /\ OneRequestPerAnswer

\* a raw list is the first answer
C18_Witness ==
    /\ EndedByOkAnswer
    /\ answer.body = JList
    /\ result.v = JList
    /\ Cardinality(RequestsSent) = 1

(***************************************************************************)
(* C19.  A 400 answer with a JSON object body B, to a request of the loop  *)
(* or to the re-issued one, makes the call return exactly the object with  *)
(* success = false, message = B.message if B has the key, else             *)
(* "Validation error", and errors = B.errors if B has the key, else B.     *)
(***************************************************************************)
C19_ValidationEnvelope ==
    (EndedByAnswer(400) /\ answer.body.t = "obj") =>
        LET B == answer.body.f
        IN  /\ pc = "returned"
            /\ result.k = "return"
            /\ result.v.t = "obj"
            /\ DOMAIN result.v.f = {"success", "message", "errors"}
            /\ result.v.f["success"] = JBool(FALSE)
            /\ result.v.f["message"] =
                  IF "message" \in DOMAIN B THEN B["message"] ELSE JStr("Validation error")
            /\ result.v.f["errors"] =
                  IF "errors" \in DOMAIN B THEN B["errors"] ELSE answer.body

\* a 400 to the re-issued request whose body has an empty errors and no message
C19_Witness ==
    /\ EndedByAnswer(400)
    /\ trace[Len(trace)].retry
    /\ answer.body.t = "obj"
    /\ DOMAIN answer.body.f = {"errors", "success"}
    /\ answer.body.f["errors"] = JObj(EmptyDict)
    /\ result.v.f["errors"] = JObj(EmptyDict)
    /\ result.v.f["message"] = JStr("Validation error")

(***************************************************************************)
(* C20.  An answer with a status below 400 other than 204 whose body is    *)
(* not JSON makes the call raise the invalid-response error: nothing       *)
(* follows it, neither a sleep nor another attempt, and no envelope is     *)
(* returned.                                                               *)
(***************************************************************************)
C20_NonJsonRaises ==
    (EndedByOkAnswer /\ answer.body = RawText) =>
        /\ pc = "raised"
        /\ result = Raised([kind |-> "InvalidJSON"])
        /\ OneRequestPerAnswer

\* the first answer is a 200 that is not JSON, with retries left
C20_Witness ==
    /\ EndedByOkAnswer
    /\ answer.body = RawText
    /\ args.max_retries = 2
    /\ Len(trace) = 2
    /\ pc = "raised"


(***************************************************************************)
(* C21.  The answer to the request re-issued after a refresh is handled as *)
(* the same answer to a request of the attempt loop is, for every status   *)
(* other than 401: the call ends with the same returned value or the same  *)
(* raise.  A 204 gives a success envelope, a 400 with a JSON object body   *)
(* the success = false envelope, another status >= 400 a raise, and a      *)
(* status below 400 returns the parsed body.  (A 400 whose JSON body is no *)
(* object raises AttributeError on both paths alike, see C1.)              *)
(***************************************************************************)
AnsweredRetry ==
    /\ Terminated
    /\ answer # NoAnswer
    /\ trace[Len(trace)].ev = "response"
    /\ trace[Len(trace)].retry
    /\ answer.status # 401

FairSpec == Spec /\ WF_vars(Next)

C24_Bounded ==
    /\ Cardinality(RequestsSent) <= 2 * (args.max_retries + 1)
    /\ attempt <= args.max_retries
    /\ pc = "sleep" => attempt < args.max_retries
    /\ Terminated <=> result.k \in {"return", "raise"}

C24_TerminatesWithinBound == []C24_Bounded /\ <>Terminated

\* every attempt got a 401, a new token, and a failure of the re-issued request
C24_Witness ==
    /\ Terminated
    /\ args.max_retries = MaxRetriesBound
    /\ Cardinality(RequestsSent) = 2 * (MaxRetriesBound + 1)

(***************************************************************************)
(* C25.  After a refresh has succeeded inside a call, every later request  *)
(* of the call (the re-issued one, and the attempts made after it failed   *)
(* at the transport level) carries the token of the latest successful      *)
(* refresh, not the token the client held when the refresh was invoked.    *)
(***************************************************************************)
C25_NoOldTokenAfterRefresh ==
    LET ok == RefreshesOk
        invoked == Events("refresh")
    IN  \A j \in RequestsSent :
            LET before == {i \in ok : i < j}
            IN  before # {} =>
                  /\ trace[j].req.headers = get_headers(trace[SetMax(before)].token)
                  /\ trace[j].req.headers # get_headers(trace[SetMin(invoked)].access_token)

\* an attempt of the loop was made after the re-issued request failed
C25_Witness ==
    \E j \in LoopRequests :
        /\ \E i \in RefreshesOk : i < j
        /\ \E i \in RetriedRequests : i < j
        /\ trace[j].req.headers["Authorization"] # <<"Bearer", OldAccess>>

(***************************************************************************)
(* C26.  The client's access token changes only at a successful refresh,   *)
(* where it becomes the new token; every other step of a call leaves it    *)
(* as it is, so a call without a successful refresh ends with the token it *)
(* started with.                                                           *)
(***************************************************************************)
C26_TokenChangesOnlyAtRefresh ==
    [][access_token' # access_token =>
          /\ pc = "refresh_update"
          /\ pc' = "retry"
          /\ access_token' = new_token]_vars

\* a request was answered, the transport failed at least once, no refresh
\* succeeded: the call raised and the token is the one of the login
C26_Witness ==
    /\ pc = "raised"
    /\ RefreshesOk = {}
    /\ TransientFailures # {}
    /\ Events("response") # {}
    /\ access_token = OldAccess


(***************************************************************************)
(* Reading the store and the processes of the bot.                         *)
(***************************************************************************)
StoredAccess(u) == redis_hget(redis_db[get_key(u)], "access_token")
StoredRefresh(u) == redis_hget(redis_db[get_key(u)], "refresh_token")
\* both clients went through update_access_token
BothRefreshed == \A c \in Clients : procs[c].pc = "done" /\ procs[c].new_token # None
ProcsOf(u) ==
    IF u = ClientUser THEN Clients \cup {LogoutProc, PasswordProc(u)} ELSE {PasswordProc(u)}

C23_UpdateResetsLifetime ==
    [][\A c \in Clients :
          (procs[c].pc = "hset_activity" /\ procs'[c].pc = "done") =>
              /\ redis_db'[ClientKey].expires
              /\ redis_db'[ClientKey].ttl = SessionTTL]_vars

(***************************************************************************)
(* C27.  Once remove_user of cmd_logout is through, is_authenticated of    *)
(* the user is false until the user's next successful login, under every   *)
(* interleaving with the user's requests that are in flight.               *)
(* A refresh that read the refresh token before the logout writes the new  *)
(* access token after it: hset creates the key again.                      *)
(***************************************************************************)
C27_LoggedOutStaysOut ==
    \A u \in Users :
        hist.logged_out[u] => ~is_authenticated(redis_db[get_key(u)], TRUE)

(***************************************************************************)
(* C28.  In every reachable state of the store, a session record that has  *)
(* an access token has a refresh token, employee data and a time-to-live.  *)
(* set_user_data writes the hash and sets the lifetime in two steps, and   *)
(* update_access_token's hset creates a key that is gone.                  *)
(***************************************************************************)
C28_RecordsComplete ==
    \A k \in Keys :
        "access_token" \in DOMAIN redis_db[k].hash =>
            /\ {"refresh_token", "employee"} \subseteq DOMAIN redis_db[k].hash
            /\ redis_db[k].expires

(***************************************************************************)
(* C29.  The store operations for a user never change the stored session   *)
(* of another user: a step changes a user's key only if it is a step of    *)
(* one of that user's handlers or requests, or time passing.  And after    *)
(* set_user_data(u, a, r, e) the getters give a, r and e for u until the   *)
(* next write or removal for u (a refresh's new token, a logout, the end   *)
(* of the lifetime).                                                       *)
(***************************************************************************)
C29_Isolated ==
    \A v \in Users :
        redis_db'[get_key(v)] # redis_db[get_key(v)] =>
            \/ procs' = procs
            \/ \E p \in ProcsOf(v) : procs'[p] # procs[p]

C29_GettersGiveWhatWasSet ==
    \A u \in Users :
        hist.last_set[u] # NoSet =>
            /\ get_access_token(redis_db[get_key(u)], TRUE) = hist.last_set[u].access
            /\ get_refresh_token(redis_db[get_key(u)].hash, TRUE) = hist.last_set[u].refresh
            /\ get_employee(redis_db[get_key(u)], TRUE) = hist.last_set[u].employee

C30_Step(u) ==
    LET p == procs[PasswordProc(u)]
        q == procs'[PasswordProc(u)]
        k == get_key(u)
    IN  /\ redis_db'[k] # redis_db[k] =>
              /\ p.pc \in {"hset", "expire"}
              /\ Truthy(Get(p.login.v, "success", JNull))
              /\ Truthy(EmployeeOf(p.login.v))
              /\ Truthy(Get(TokensOf(p.login.v), "access", JNull))
              /\ Truthy(Get(TokensOf(p.login.v), "refresh", JNull))
        /\ (p.pc # "idle" /\ q.pc = "idle") =>
              \/ /\ p.pc = "clear"
                 /\ fsm'[u] = Cleared
                 /\ is_authenticated(redis_db'[k], TRUE)
              \/ /\ fsm'[u].state = "waiting_for_email"
                 /\ redis_db'[k] = p.before
        /\ (p.pc = "idle" /\ q.pc = "idle" /\ fsm[u].state = "waiting_for_password"
                /\ fsm'[u] # fsm[u] /\ fsm'[u] # Cleared) =>
              /\ fsm'[u].state = "waiting_for_email"
              /\ redis_db'[k] = redis_db[k]

C30_StoreOnlyOnSuccess == [][\A u \in Users : C30_Step(u)]_vars

(***************************************************************************)
(* Employees: permissions and role buttons.                                *)
(***************************************************************************)
\* the table of the docstring of can_update_employee, by role names
DocumentedTable(user, target) ==
    CASE user = Dasturchi -> TRUE
      [] user = Direktor -> target # Dasturchi
      [] user = Administrator -> target \notin {Administrator, Direktor, Dasturchi}
      [] OTHER -> FALSE
\* the elements of a sequence
Range(seq) == {seq[i] : i \in DOMAIN seq}
\* the role buttons of the keyboard shown last
RoleButtons == {b \in Range(keyboard) : b.callback_data \notin {CancelCreate, CancelEdit}}
\* the role a button names: the key of role_names that has the button's text
RoleNamed(text) == CHOOSE r \in DOMAIN role_names : role_names[r] = text

(***************************************************************************)
(* C31: delete_employee_execute sends the DELETE request only if           *)
(* can_delete_employee(caller's role, target's current role) holds,        *)
(* whatever get_employee answered.  last_request.target is the role the    *)
(* backend holds when the DELETE is sent.                                  *)
(* With an envelope without a truthy success the check of lines 730-737    *)
(* is skipped and line 739 sends the DELETE.                               *)
(***************************************************************************)
C31_DeleteOnlyIfPermitted ==
    last_request.method = "DELETE" =>
        can_delete_employee(caller_role, last_request.target)

(***************************************************************************)
(* C32: for all pairs of roles can_update_employee, can_delete_employee    *)
(* and can_assign_role follow the documented table (dasturchi: every       *)
(* role; direktor: every role but dasturchi; administrator: the roles      *)
(* below administrator; any other or unknown role: none); none is granted  *)
(* over a target of a higher level than the caller's; and                  *)
(* get_assignable_roles(r) is exactly the roles t with                     *)
(* can_assign_role(r, t), each once.  The handlers apply them so: the      *)
(* keyboard shown offers exactly the roles of the table for the caller,    *)
(* the edit conversation and the confirm button start only for a target    *)
(* of the table.                                                           *)
(***************************************************************************)
C32_Table ==
    /\ \A u \in RoleValues, t \in RoleValues :
          /\ can_update_employee(u, t) = DocumentedTable(u, t)
          /\ can_delete_employee(u, t) = DocumentedTable(u, t)
          /\ can_assign_role(u, t) = DocumentedTable(u, t)
          /\ get_role_level(t) > get_role_level(u) =>
                /\ ~can_update_employee(u, t)
                /\ ~can_delete_employee(u, t)
                /\ ~can_assign_role(u, t)
    /\ \A u \in RoleValues :
          LET roles == get_assignable_roles(u)
          IN  /\ Range(roles) = {t \in DOMAIN ROLE_LEVEL : can_assign_role(u, t)}
              /\ \A i, j \in DOMAIN roles : roles[i] = roles[j] => i = j

C32_Shown ==
    keyboard # <<>> =>
        {b.text : b \in RoleButtons} =
            {role_names[t] : t \in {r \in DOMAIN ROLE_LEVEL : DocumentedTable(caller_role, r)}}

C32_Step ==
    /\ (conv.state # "waiting_for_field" /\ conv'.state = "waiting_for_field") =>
          DocumentedTable(caller_role, backend_role)
    /\ (~confirm_shown /\ confirm_shown') => DocumentedTable(caller_role, backend_role)
    /\ (conv.state # "waiting_for_email" /\ conv'.state = "waiting_for_email") =>
          caller_role \in {Dasturchi, Direktor, Administrator}

C32_PermissionTable == [](C32_Table /\ C32_Shown) /\ [][C32_Step]_vars

\* an administrator has the four roles below administrator to choose from
\* and is editing a buxgalter
C32_Witness ==
    /\ caller_role = Administrator
    /\ backend_role = Buxgalter
    /\ conv.state = "waiting_for_value"
    /\ {b.text : b \in RoleButtons} =
          {role_names[Buxgalter], role_names[SotuvAgenti], role_names[Mentor],
           role_names[Assistent]}

(***************************************************************************)
(* C33: in the create and the edit conversation, for every role offered,   *)
(* the role stored in the conversation data and the role sent to the       *)
(* backend after the button is pressed are the role named on the button.   *)
(* "role_sotuv_agenti".split("_")[1] and                                   *)
(* "edit_role_sotuv_agenti".split("_")[2] are "sotuv".                     *)
(***************************************************************************)
C33_RoleOfButton ==
    /\ pressed # NoButton => conv.role = RoleNamed(pressed.text)
    /\ (last_request.method \in {"POST", "PATCH"} /\ last_request.button # NoButton) =>
          last_request.role = RoleNamed(last_request.button.text)

====
